---- MODULE Spec2Model ----
(***************************************************************************)
(* A model of the WarpX kernels under Source/: the shape-factor based      *)
(* current deposition (CurrentDeposition.H), the PML current push          *)
(* (PML_current.H) and the Cartesian Yee finite-difference solver          *)
(* (FiniteDifferenceSolver.H, CartesianYeeAlgorithm.H).                    *)
(*                                                                         *)
(* Number system.  The code computes in amrex::Real; the model computes    *)
(* the same expressions in exact arithmetic.  Every real is held as an     *)
(* integer numerator over a denominator that is fixed by the build:        *)
(*   - a grid coordinate (xp-xmin)*dxi and a displacement dt*v*dxi:        *)
(*     over Res(c) (so a sub-cell offset is one of 0/Res .. (Res-1)/Res);  *)
(*   - a shape weight: over ShapeDen(order, Res);                          *)
(*   - a value added to a current array: over JDen(c).                     *)
(* The factors 0.5 and 1/3 of the Esirkepov recurrence are held over 6.    *)
(***************************************************************************)
EXTENDS Integers, Sequences, FiniteSets, TLC

\* ------------------------------------------------------------------ bounds
\* Sub-cell resolution: positions are multiples of 1/(2*HalfRes) of a cell.
HalfRes2D == 2
HalfRes3D == 1
\* Ionization levels of the model: 0..MaxIonLev.
MaxIonLev == 2
\* The cell that holds every particle of the model; the grid is 0..NG.
Base == 3
\* Threads of one ParallelFor (particles of a batch), and the highest
\* deposition order explored thread by thread.
NThreads == 2
MaxParOrder == 1
\* Bits of the significand of amrex::Real in the model (53 or 24 in the
\* code), cells per axis of the PML box, and kernel calls on it.
MantBits == 5
PMLCells == 2
MaxPMLCalls == 2
MaxSweeps == 1
\* Calls made on one BreitWheelerEngine object.
MaxEngineCalls == 3
\* Interior cells per axis of the solver's grid (one guard cell on each
\* side), field-update calls, particle species and time steps.
SolverCells == 1
MaxSolverCalls == 3
NSpecies == 2
MaxSteps == 2
\* Particles in the container and deposition calls made on it.
MaxBatch == 2
MaxCalls == 2
\* Azimuthal modes of the cylindrical build: n_rz_azimuthal_modes <= MaxModes.
MaxModes == 3
\* Extent of the cylindrical current arrays along r and z: cells 0..RZCells.
RZCells == 5
NG == Base + 4

VARIABLES
    cfg,     \* the build and the arguments shared by every call
    Jarr,    \* jx_arr, jy_arr, jz_arr: numerators over JDen(cfg)
    part,    \* the particle of the last deposition call ("none" before it)
    phase,   \* where the driver of the specification stands
    par,     \* the threads of a running ParallelFor over a particle batch
    pml,     \* the PML box: damping arrays, split E fields, currents
    sol,     \* the finite-difference solver, its fields and the time step
    rz,      \* the cylindrical (RZ) direction computation of one particle
    engine   \* the BreitWheelerEngine object and the calls made on it

vars == <<cfg, Jarr, part, phase, par, pml, sol, rz, engine>>

\* The value of a variable that a specification does not use.
Unused == "unused"

\* ---------------------------------------------------------- configuration
Res(c) == IF c.dim = 3 THEN 2 * HalfRes3D ELSE 2 * HalfRes2D

\* The grid axes of the build: x, y, z in 3-D; x, z in the 2-D XZ build.
Axes(c) == IF c.dim = 3 THEN {1, 2, 3} ELSE {1, 3}

\* amrex::Array4 is linear memory: cell (i,j,k) of a current array.  In the
\* 2-D build the arrays are indexed (i, k, 0).
NPerAxis == NG + 1
Idx(i, j, k) == i + NPerAxis * (j + NPerAxis * k)
NCells(c) == IF c.dim = 3 THEN NPerAxis * NPerAxis * NPerAxis
                          ELSE NPerAxis * NPerAxis
ZeroArr(c) == [n \in 0..(NCells(c) - 1) |-> 0]
ZeroJ(c) == [x |-> ZeroArr(c), y |-> ZeroArr(c), z |-> ZeroArr(c)]

\* jx_fab.box().type(): the staggering of each current component on each
\* axis.  The Yee grid has Jx cell-centred along x and nodal elsewhere, and
\* so on; a nodal grid is nodal everywhere.
JType(c, comp, axis) ==
    IF c.nodal THEN "NODE"
    ELSE IF (comp = "x" /\ axis = 1) \/ (comp = "y" /\ axis = 2)
            \/ (comp = "z" /\ axis = 3)
         THEN "CELL" ELSE "NODE"

\* ----------------------------------------------------------- shape factor
\* Denominator of the weights of order `order` at resolution den.
ShapeDen(order, den) ==
    CASE order = 0 -> 1
      [] order = 1 -> den
      [] order = 2 -> 8 * den * den
      [] order = 3 -> 6 * den * den * den

\* compute_shape_factor<order>(sx, x): the leftmost index j and the order+1
\* weights s[0..order] of a particle at grid coordinate n/den (n >= 0).
compute_shape_factor(order, n, den) ==
    CASE order = 0 ->
           [j |-> (2 * n + den) \div (2 * den), s |-> [i \in 0..0 |-> 1]]
      [] order = 1 ->
           LET j == n \div den
               m == n - j * den
           IN  [j |-> j, s |-> [i \in 0..1 |-> IF i = 0 THEN den - m ELSE m]]
      [] order = 2 ->
           LET j == (2 * n + den) \div (2 * den)
               m == n - j * den
           IN  [j |-> j - 1,
                s |-> [i \in 0..2 |->
                         CASE i = 0 -> (den - 2 * m) * (den - 2 * m)
                           [] i = 1 -> 6 * den * den - 8 * m * m
                           [] i = 2 -> (den + 2 * m) * (den + 2 * m)]]
      [] order = 3 ->
           LET j == n \div den
               m == n - j * den
               t == den - m
           IN  [j |-> j - 1,
                s |-> [i \in 0..3 |->
                         CASE i = 0 -> t * t * t
                           [] i = 1 -> 4 * den * den * den - 6 * m * m * den
                                         + 3 * m * m * m
                           [] i = 2 -> 4 * den * den * den - 6 * t * t * den
                                         + 3 * t * t * t
                           [] i = 3 -> m * m * m]]

\* compute_shifted_shape_factor<order>(sx, x_old, i_new): writes the order+1
\* weights of x_old into the window sx at the offset of its leftmost index
\* from i_new - 1, and returns that leftmost index.
compute_shifted_shape_factor(sx, order, n, den, i_new) ==
    LET sf == compute_shape_factor(order, n, den)
        i_shift == sf.j - (i_new - 1)
    IN  [j |-> sf.j,
         s |-> [i \in DOMAIN sx |->
                  IF i - i_shift \in 0..order THEN sf.s[i - i_shift]
                  ELSE sx[i]]]

\* ------------------------------------------------------------- particles
\* The ionization level never applied.
ChargeWeight_NoIon(c, p) == c.q * p.w
\* wq = q*wp[ip], times ion_lev[ip] when ion_lev is not a null pointer.
ChargeWeight(c, p) ==
    IF c.do_ionization THEN c.q * p.w * p.ion ELSE c.q * p.w

\* vx, vy, vz = u*gaminv, over Res*dt: the model takes the displacement of
\* one step in grid units, d = dt*v/dx, as the particle's datum (in the
\* 2-D build d[2] stands for the out-of-plane velocity in the same way).
Velocity(c, p, a) == p.d[a] * c.dx[a]

\* An add of the code: Atomic::Add(&j<comp>_arr(cell), val).
AddOp(comp, idx, val) == [comp |-> comp, idx |-> idx, val |-> val]

\* A plain store in place of the atomic add.
AtomicAdd_Store(J, op) == [J EXCEPT ![op.comp][op.idx] = op.val]
\* amrex::Gpu::Atomic::Add on one cell of the current arrays.
AtomicAdd(J, op) == [J EXCEPT ![op.comp][op.idx] = @ + op.val]

RECURSIVE ApplyAdds(_, _, _)
ApplyAdds(J, adds, n) ==
    IF n = 0 THEN J ELSE AtomicAdd(ApplyAdds(J, adds, n - 1), adds[n])

\* ------------------------------------------------- direct deposition
\* xmid = (xp-xmin)*dxi - dts2dx*vx, over Res.
MidCoord(p, a) == p.x[a] - (p.d[a] \div 2)

\* A local array and index that were declared and not assigned.  What
\* they hold is whatever the stack held; the model gives them the marker
\* set = FALSE and a content no shape factor has (all weights zero).
Unassigned(order) ==
    [set |-> FALSE, v |-> [j |-> 0, s |-> [i \in 0..order |-> 0]]]
Assigned(sf) == [set |-> TRUE, v |-> sf]

\* The cell-centred array computed only when jx is cell-centred.
ShapeArrays_JxOnly(c, p, a) ==
    LET any(t) == \E comp \in {"x", "y", "z"} : JType(c, comp, a) = t
    IN  [node |-> IF any("NODE")
                  THEN Assigned(compute_shape_factor(c.order, MidCoord(p, a),
                                                     Res(c)))
                  ELSE Unassigned(c.order),
         cell |-> IF JType(c, "x", a) = "CELL"
                  THEN Assigned(compute_shape_factor(c.order,
                                  MidCoord(p, a) - (Res(c) \div 2), Res(c)))
                  ELSE Unassigned(c.order)]
\* sx_node, j_node and sx_cell, j_cell of one axis: the first is computed
\* at xmid when some component is NODE on the axis, the second at
\* xmid - 0.5 when some component is CELL on it.
ShapeArrays(c, p, a) ==
    LET any(t) == \E comp \in {"x", "y", "z"} : JType(c, comp, a) = t
    IN  [node |-> IF any("NODE")
                  THEN Assigned(compute_shape_factor(c.order, MidCoord(p, a),
                                                     Res(c)))
                  ELSE Unassigned(c.order),
         cell |-> IF any("CELL")
                  THEN Assigned(compute_shape_factor(c.order,
                                  MidCoord(p, a) - (Res(c) \div 2), Res(c)))
                  ELSE Unassigned(c.order)]

\* sx_jx = (jx_type[0] == NODE) ? sx_node : sx_cell, and so on: the array
\* and the leftmost index of a component on an axis.
SelectShape(c, p, comp, a) ==
    IF JType(c, comp, a) = "NODE" THEN ShapeArrays(c, p, a).node
    ELSE ShapeArrays(c, p, a).cell
DirectShape(c, p, comp, a) == SelectShape(c, p, comp, a).v

\* wqx, wqy, wqz = wq*invvol*v, over Res*dt*volume.
DirectWq(c, p, comp) ==
    ChargeWeight(c, p) * Velocity(c, p, CASE comp = "x" -> 1 [] comp = "y" -> 2
                                          [] comp = "z" -> 3)

CompOf(n) == CASE n = 0 -> "x" [] n = 1 -> "y" [] n = 2 -> "z"

\* A loop that stops one short: ix < depos_order.
DirectLoopCount_Short(c) == c.order
\* The loop bound of the deposition loops: ix, iy, iz run over 0..depos_order.
DirectLoopCount(c) == c.order + 1

\* The adds of one particle, in program order.  2-D: for iz, for ix, the
\* three adds; 3-D: for iz, for iy, for ix, the three adds.
DirectAdds(c, p) ==
    LET n1 == DirectLoopCount(c)
        sh(comp, a) == DirectShape(c, p, comp, a)
    IN  IF c.dim = 2
        THEN [n \in 1..(3 * n1 * n1) |->
                LET comp == CompOf((n - 1) % 3)
                    ix == ((n - 1) \div 3) % n1
                    iz == (n - 1) \div (3 * n1)
                    sx == sh(comp, 1)
                    sz == sh(comp, 3)
                IN  AddOp(comp, Idx(sx.j + ix, sz.j + iz, 0),
                          sx.s[ix] * sz.s[iz] * DirectWq(c, p, comp))]
        ELSE [n \in 1..(3 * n1 * n1 * n1) |->
                LET comp == CompOf((n - 1) % 3)
                    ix == ((n - 1) \div 3) % n1
                    iy == ((n - 1) \div (3 * n1)) % n1
                    iz == (n - 1) \div (3 * n1 * n1)
                    sx == sh(comp, 1)
                    sy == sh(comp, 2)
                    sz == sh(comp, 3)
                IN  AddOp(comp, Idx(sx.j + ix, sy.j + iy, sz.j + iz),
                          sx.s[ix] * sy.s[iy] * sz.s[iz] * DirectWq(c, p, comp))]

\* ---------------------------------------------- Esirkepov deposition
\* A window left uninitialised, holding whatever the stack held.
ZeroWindow_Stale(order) == [i \in 0..(order + 2) |-> 1]
\* Real sx_new[depos_order + 3] = {0._rt}: a zero-filled window.
ZeroWindow(order) == [i \in 0..(order + 2) |-> 0]

\* The new weights written from entry 0 of their window, not from entry 1.
EsirkepovAxis_NoOffset(c, p, a) ==
    LET x_new == p.x[a]
        x_old == x_new - p.d[a]
        sf == compute_shape_factor(c.order, x_new, Res(c))
        zw == ZeroWindow(c.order)
        s_new == [i \in DOMAIN zw |->
                    IF i \in 0..c.order THEN sf.s[i] ELSE zw[i]]
        old == compute_shifted_shape_factor(zw, c.order, x_old, Res(c), sf.j)
    IN  [i_new |-> sf.j, i_old |-> old.j, s_new |-> s_new, s_old |-> old.s,
         dl |-> IF old.j < sf.j THEN 0 ELSE 1,
         du |-> IF old.j > sf.j THEN 0 ELSE 1]
\* One axis of the particle: x_new = (xp-xmin)*dxi, x_old = x_new -
\* dtsdx0*uxp*gaminv, the two windows, the leftmost indices and the trimmed
\* loop bounds dil, diu (djl, dju; dkl, dku).
EsirkepovAxis(c, p, a) ==
    LET x_new == p.x[a]
        x_old == x_new - p.d[a]
        sf == compute_shape_factor(c.order, x_new, Res(c))
        zw == ZeroWindow(c.order)
        \* compute_shape_factor<depos_order>(sx_new+1, x_new)
        s_new == [i \in DOMAIN zw |->
                    IF i - 1 \in 0..c.order THEN sf.s[i - 1] ELSE zw[i]]
        old == compute_shifted_shape_factor(zw, c.order, x_old, Res(c), sf.j)
    IN  [i_new |-> sf.j, i_old |-> old.j, s_new |-> s_new, s_old |-> old.s,
         dl |-> IF old.j < sf.j THEN 0 ELSE 1,
         du |-> IF old.j > sf.j THEN 0 ELSE 1]

\* wqx = wq*invdtdx, wqy = wq*invdtdy, wqz = wq*invdtdz.  3-D: invdtdx =
\* 1/(dt*dx[1]*dx[2]) = dx[0]/(dt*volume); 2-D: invdtdx = 1/(dt*dx[2]) =
\* dx[0]/(dt*dx[0]*dx[2]), held over Res*dt*dx[0]*dx[2] like wq*vy*invvol.
EsirkepovWq(c, p, a) ==
    IF c.dim = 3 THEN ChargeWeight(c, p) * c.dx[a]
    ELSE ChargeWeight(c, p) * Res(c) * c.dx[a]

\* (s_new + 0.5*(s_old - s_new)) and (0.5*s_new + 1/3*(s_old - s_new)),
\* both over 6 times the shape denominator.
\* The factor 0.5 of the averaged weight left out.
HalfW_NoHalf(ax, i) == 6 * ax.s_new[i] + 6 * (ax.s_old[i] - ax.s_new[i])
HalfW(ax, i) == 6 * ax.s_new[i] + 3 * (ax.s_old[i] - ax.s_new[i])
ThirdW(ax, i) == 3 * ax.s_new[i] + 2 * (ax.s_old[i] - ax.s_new[i])

\* The running sum sdxi (sdyj, sdzk) of the innermost loop: term(lo) + ... +
\* term(i).
RECURSIVE RunningSum(_, _, _)
RunningSum(term, lo, i) ==
    IF i < lo THEN 0 ELSE term[i] + RunningSum(term, lo, i - 1)

\* Loop bounds: the accumulated axis runs dl..order+1-du, the others
\* dl..order+2-du.
\* The lower bound always trimmed: every loop starts at entry 1.
LoopLo_Trimmed(ax) == 1
LoopLo(ax) == ax.dl
LoopHi(c, ax) == c.order + 2 - ax.du
LoopHiAcc(c, ax) == c.order + 1 - ax.du
Count(lo, hi) == IF hi < lo THEN 0 ELSE hi - lo + 1

\* 3-D, the terms added to sdxi, sdyj, sdzk.
TermX3D(c, p, X, Y, Z, i, j, k) ==
    EsirkepovWq(c, p, 1) * (X.s_old[i] - X.s_new[i])
      * (HalfW(Y, j) * Z.s_new[k] + ThirdW(Y, j) * (Z.s_old[k] - Z.s_new[k]))
TermY3D(c, p, X, Y, Z, i, j, k) ==
    EsirkepovWq(c, p, 2) * (Y.s_old[j] - Y.s_new[j])
      * (HalfW(Z, k) * X.s_new[i] + ThirdW(Z, k) * (X.s_old[i] - X.s_new[i]))
TermZ3D(c, p, X, Y, Z, i, j, k) ==
    EsirkepovWq(c, p, 3) * (Z.s_old[k] - Z.s_new[k])
      * (HalfW(X, i) * Y.s_new[j] + ThirdW(X, i) * (Y.s_old[j] - Y.s_new[j]))

\* The cell of window entry (i, j, k): lo + i_new - 1 + i, and so on.
WinIdx3D(X, Y, Z, i, j, k) ==
    Idx(X.i_new - 1 + i, Y.i_new - 1 + j, Z.i_new - 1 + k)

\* The three loop nests of the 3-D build, in program order.
EsirkepovJx3D(c, p, X, Y, Z) ==
    LET ni == Count(LoopLo(X), LoopHiAcc(c, X))
        nj == Count(LoopLo(Y), LoopHi(c, Y))
        nk == Count(LoopLo(Z), LoopHi(c, Z))
    IN  [n \in 1..(ni * nj * nk) |->
           LET i == LoopLo(X) + ((n - 1) % ni)
               j == LoopLo(Y) + (((n - 1) \div ni) % nj)
               k == LoopLo(Z) + (n - 1) \div (ni * nj)
               term == [ii \in 0..(c.order + 2) |-> TermX3D(c, p, X, Y, Z, ii, j, k)]
           IN  AddOp("x", WinIdx3D(X, Y, Z, i, j, k),
                     RunningSum(term, LoopLo(X), i))]
EsirkepovJy3D(c, p, X, Y, Z) ==
    LET ni == Count(LoopLo(X), LoopHi(c, X))
        nj == Count(LoopLo(Y), LoopHiAcc(c, Y))
        nk == Count(LoopLo(Z), LoopHi(c, Z))
    IN  [n \in 1..(ni * nj * nk) |->
           LET j == LoopLo(Y) + ((n - 1) % nj)
               i == LoopLo(X) + (((n - 1) \div nj) % ni)
               k == LoopLo(Z) + (n - 1) \div (ni * nj)
               term == [jj \in 0..(c.order + 2) |-> TermY3D(c, p, X, Y, Z, i, jj, k)]
           IN  AddOp("y", WinIdx3D(X, Y, Z, i, j, k),
                     RunningSum(term, LoopLo(Y), j))]
EsirkepovJz3D(c, p, X, Y, Z) ==
    LET ni == Count(LoopLo(X), LoopHi(c, X))
        nj == Count(LoopLo(Y), LoopHi(c, Y))
        nk == Count(LoopLo(Z), LoopHiAcc(c, Z))
    IN  [n \in 1..(ni * nj * nk) |->
           LET k == LoopLo(Z) + ((n - 1) % nk)
               i == LoopLo(X) + (((n - 1) \div nk) % ni)
               j == LoopLo(Y) + (n - 1) \div (ni * nk)
               term == [kk \in 0..(c.order + 2) |-> TermZ3D(c, p, X, Y, Z, i, j, kk)]
           IN  AddOp("z", WinIdx3D(X, Y, Z, i, j, k),
                     RunningSum(term, LoopLo(Z), k))]

\* 2-D XZ build.  Jx and Jz accumulate along their own axis; Jy is the
\* out-of-plane current wq*vy*invvol times the averaged weights.
TermX2D(c, p, X, Z, i, k) ==
    EsirkepovWq(c, p, 1) * (X.s_old[i] - X.s_new[i]) * HalfW(Z, k)
TermZ2D(c, p, X, Z, i, k) ==
    EsirkepovWq(c, p, 3) * (Z.s_old[k] - Z.s_new[k]) * HalfW(X, i)
\* The second term weighted by sx_old[i], not by sx_old[i] - sx_new[i].
OutOfPlane2D_OldWeight(c, p, X, Z, i, k) ==
    ChargeWeight(c, p) * Velocity(c, p, 2)
      * (HalfW(Z, k) * X.s_new[i] + ThirdW(Z, k) * X.s_old[i])
OutOfPlane2D(c, p, X, Z, i, k) ==
    ChargeWeight(c, p) * Velocity(c, p, 2)
      * (HalfW(Z, k) * X.s_new[i] + ThirdW(Z, k) * (X.s_old[i] - X.s_new[i]))

WinIdx2D(X, Z, i, k) == Idx(X.i_new - 1 + i, Z.i_new - 1 + k, 0)

EsirkepovJx2D(c, p, X, Z) ==
    LET ni == Count(LoopLo(X), LoopHiAcc(c, X))
        nk == Count(LoopLo(Z), LoopHi(c, Z))
    IN  [n \in 1..(ni * nk) |->
           LET i == LoopLo(X) + ((n - 1) % ni)
               k == LoopLo(Z) + (n - 1) \div ni
               term == [ii \in 0..(c.order + 2) |-> TermX2D(c, p, X, Z, ii, k)]
           IN  AddOp("x", WinIdx2D(X, Z, i, k), RunningSum(term, LoopLo(X), i))]
EsirkepovJy2D(c, p, X, Z) ==
    LET ni == Count(LoopLo(X), LoopHi(c, X))
        nk == Count(LoopLo(Z), LoopHi(c, Z))
    IN  [n \in 1..(ni * nk) |->
           LET i == LoopLo(X) + ((n - 1) % ni)
               k == LoopLo(Z) + (n - 1) \div ni
           IN  AddOp("y", WinIdx2D(X, Z, i, k), OutOfPlane2D(c, p, X, Z, i, k))]
EsirkepovJz2D(c, p, X, Z) ==
    LET ni == Count(LoopLo(X), LoopHi(c, X))
        nk == Count(LoopLo(Z), LoopHiAcc(c, Z))
    IN  [n \in 1..(ni * nk) |->
           LET k == LoopLo(Z) + ((n - 1) % nk)
               i == LoopLo(X) + (n - 1) \div nk
               term == [kk \in 0..(c.order + 2) |-> TermZ2D(c, p, X, Z, i, kk)]
           IN  AddOp("z", WinIdx2D(X, Z, i, k), RunningSum(term, LoopLo(Z), k))]

\* The adds of one particle, in program order.
EsirkepovAdds(c, p) ==
    LET X == EsirkepovAxis(c, p, 1)
        Y == EsirkepovAxis(c, p, 2)
        Z == EsirkepovAxis(c, p, 3)
    IN  IF c.dim = 3
        THEN EsirkepovJx3D(c, p, X, Y, Z) \o EsirkepovJy3D(c, p, X, Y, Z)
               \o EsirkepovJz3D(c, p, X, Y, Z)
        ELSE EsirkepovJx2D(c, p, X, Z) \o EsirkepovJy2D(c, p, X, Z)
               \o EsirkepovJz2D(c, p, X, Z)

\* ---------------------------------------------------- the two routines
\* A loop that deposits the first particle only.
doDepositionShapeN_FirstOnly(c, J, batch) ==
    IF batch = <<>> THEN J
    ELSE LET adds == DirectAdds(c, Head(batch))
         IN  ApplyAdds(J, adds, Len(adds))
\* amrex::ParallelFor(np_to_depose, ...) run serially over the batch: each
\* particle's adds applied to the arrays.
RECURSIVE doDepositionShapeN(_, _, _)
doDepositionShapeN(c, J, batch) ==
    IF batch = <<>> THEN J
    ELSE LET adds == DirectAdds(c, Head(batch))
         IN  doDepositionShapeN(c, ApplyAdds(J, adds, Len(adds)), Tail(batch))

\* The arrays zeroed at entry, then the first particle deposited.
doEsirkepovDepositionShapeN_Clears(c, J, batch) ==
    IF batch = <<>> THEN ZeroJ(c)
    ELSE LET adds == EsirkepovAdds(c, Head(batch))
         IN  ApplyAdds(ZeroJ(c), adds, Len(adds))
RECURSIVE doEsirkepovDepositionShapeN(_, _, _)
doEsirkepovDepositionShapeN(c, J, batch) ==
    IF batch = <<>> THEN J
    ELSE LET adds == EsirkepovAdds(c, Head(batch))
         IN  doEsirkepovDepositionShapeN(c, ApplyAdds(J, adds, Len(adds)),
                                         Tail(batch))

\* ------------------------------------------------- deposition: the calls
\* The builds and call arguments of the model.  Esirkepov deposition does
\* not read the staggering, so one staggering is enough for it; the
\* ionization multiplier does not depend on the build, so it is explored
\* in the 2-D build.  q is the
\* species charge; ion_lev is a null pointer unless do_ionization (the
\* particles then carry ion = 0, which no call reads).
Configs ==
    {c \in [dim : {2, 3}, order : 0..3, algo : {"direct", "esirkepov"},
            nodal : BOOLEAN, dx : {<<1, 2, 3>>}, q : {-1},
            do_ionization : BOOLEAN] :
        /\ c.algo = "esirkepov" => ~c.nodal
        /\ c.do_ionization => c.dim = 2}

\* Grid coordinates of the particles: every sub-cell offset of cell Base.
Coords(c) == {Base * Res(c) + o : o \in 0..(Res(c) - 1)}

\* Displacements of one step, over Res.  Esirkepov: less than one cell
\* (the solver's CFL limit), so the old window entry exists; direct: the
\* even ones up to one cell, so that the mid-step coordinate is on the grid
\* of the model.
Disps(c) ==
    IF c.algo = "esirkepov" THEN (1 - Res(c))..(Res(c) - 1)
    ELSE {d \in (0 - Res(c))..Res(c) : d % 2 = 0}

Weights(c) == IF c.dim = 3 THEN {1} ELSE {2}

\* In the 2-D build the y coordinate is not read (held 0), and d[2] stands
\* for the out-of-plane velocity.
CoordSet(c, a) == IF a \in Axes(c) THEN Coords(c) ELSE {0}
DispSet(c, a) == IF a \in Axes(c) THEN Disps(c) ELSE {-2, 2}
IonSet(c) == IF c.do_ionization THEN 0..MaxIonLev ELSE {0}

Particles(c) ==
    {[x |-> <<x1, x2, x3>>, d |-> <<d1, d2, d3>>, w |-> w, ion |-> l] :
        x1 \in CoordSet(c, 1), x2 \in CoordSet(c, 2), x3 \in CoordSet(c, 3),
        d1 \in DispSet(c, 1), d2 \in DispSet(c, 2), d3 \in DispSet(c, 3),
        w \in Weights(c), l \in IonSet(c)}

DepInit ==
    /\ cfg \in Configs
    /\ Jarr = ZeroJ(cfg)
    /\ part = "none"
    /\ phase = "idle"
    /\ par = Unused /\ pml = Unused /\ sol = Unused /\ rz = Unused
    /\ engine = Unused

\* One call of doDepositionShapeN with np_to_depose = 1.
DepositDirect ==
    /\ phase = "idle"
    /\ cfg.algo = "direct"
    /\ \E p \in Particles(cfg) :
         /\ Jarr' = doDepositionShapeN(cfg, Jarr, <<p>>)
         /\ part' = p
    /\ phase' = "deposited"
    /\ UNCHANGED <<cfg, par, pml, sol, rz, engine>>

\* One call of doEsirkepovDepositionShapeN with np_to_depose = 1.
DepositEsirkepov ==
    /\ phase = "idle"
    /\ cfg.algo = "esirkepov"
    /\ \E p \in Particles(cfg) :
         /\ Jarr' = doEsirkepovDepositionShapeN(cfg, Jarr, <<p>>)
         /\ part' = p
    /\ phase' = "deposited"
    /\ UNCHANGED <<cfg, par, pml, sol, rz, engine>>

\* The caller zeroes the current arrays before the next step's deposition.
ZeroCurrent ==
    /\ phase = "deposited"
    /\ Jarr' = ZeroJ(cfg)
    /\ part' = "none"
    /\ phase' = "idle"
    /\ UNCHANGED <<cfg, par, pml, sol, rz, engine>>

DepNext == DepositDirect \/ DepositEsirkepov \/ ZeroCurrent
SpecDep == DepInit /\ [][DepNext]_vars

\* ------------------------------------------------ deposition: the threads
\* amrex::ParallelFor(np_to_depose, ...) runs the body once per particle,
\* in any interleaving; the body's only writes to shared memory are its
\* atomic adds, taken one at a time.
ParticleAdds(c, p) ==
    IF c.algo = "direct" THEN DirectAdds(c, p) ELSE EsirkepovAdds(c, p)

ParConfigs ==
    {c \in Configs : c.dim = 2 /\ c.order <= MaxParOrder /\ ~c.nodal
                        /\ ~c.do_ionization}

\* Two particles of one cell, half a sub-cell step apart, moving against
\* each other: their footprints overlap.
ParParticles(c) ==
    LET D == IF c.algo = "esirkepov" THEN 1 ELSE 2
    IN  {[x |-> <<Base * Res(c) + o, 0, Base * Res(c) + 1>>,
          d |-> <<(1 - 2 * o) * D, 2 - 4 * o, D>>, w |-> 2, ion |-> 0] :
            o \in {0, 1}}

\* The arrays at the call: zeroed, or holding what another species has
\* deposited in this step.
PriorCurrents(c) ==
    {ZeroJ(c)} \cup
    {IF c.algo = "direct" THEN doDepositionShapeN(c, ZeroJ(c), <<p>>)
     ELSE doEsirkepovDepositionShapeN(c, ZeroJ(c), <<p>>) :
        p \in {q \in ParParticles(c) : q.x[1] = Base * Res(c)}}

ParInit ==
    /\ cfg \in ParConfigs
    /\ Jarr \in PriorCurrents(cfg)
    /\ part = "none"
    /\ phase = "par_idle"
    /\ par = Unused /\ pml = Unused /\ sol = Unused /\ rz = Unused
    /\ engine = Unused

\* The call: one thread per particle, each with its adds still to do.
ParLaunch ==
    /\ phase = "par_idle"
    /\ \E batch \in [1..NThreads -> ParParticles(cfg)] :
         par' = [batch |-> batch,
                 adds |-> [ip \in 1..NThreads |-> ParticleAdds(cfg, batch[ip])],
                 pc |-> [ip \in 1..NThreads |-> 0],
                 Jstart |-> Jarr]
    /\ phase' = "par_running"
    /\ UNCHANGED <<cfg, Jarr, part, pml, sol, rz, engine>>

\* Thread ip performs its next atomic add.
ParAdd ==
    /\ phase = "par_running"
    /\ \E ip \in 1..NThreads :
         /\ par.pc[ip] < Len(par.adds[ip])
         /\ Jarr' = AtomicAdd(Jarr, par.adds[ip][par.pc[ip] + 1])
         /\ par' = [par EXCEPT !.pc[ip] = @ + 1]
    /\ UNCHANGED <<cfg, part, phase, pml, sol, rz, engine>>

\* Every thread has finished: the ParallelFor is complete.
ParJoin ==
    /\ phase = "par_running"
    /\ \A ip \in 1..NThreads : par.pc[ip] = Len(par.adds[ip])
    /\ phase' = "par_done"
    /\ UNCHANGED <<cfg, Jarr, part, par, pml, sol, rz, engine>>

\* The caller starts the next step from prior currents again.
ParReturn ==
    /\ phase = "par_done"
    /\ Jarr' \in PriorCurrents(cfg)
    /\ par' = Unused
    /\ phase' = "par_idle"
    /\ UNCHANGED <<cfg, part, pml, sol, rz, engine>>

ParNext == ParLaunch \/ ParAdd \/ ParJoin \/ ParReturn
SpecPar == ParInit /\ [][ParNext]_vars

\* -------------------------------------------- deposition: call sequences
\* The particle container holds MaxBatch particles; each call deposits
\* np_to_depose consecutive particles of it (the pointers wp, uxp, ... and
\* GetPosition start at the first of them), possibly none.
Stores(c) == [1..MaxBatch -> ParParticles(c)]
Ranges == {r \in (1..MaxBatch) \X (0..MaxBatch) : r[1] <= r[2]} \cup {<<1, 0>>}
BatchOf(store, r) == SubSeq(store, r[1], r[2])

BatchInit ==
    /\ cfg \in ParConfigs
    /\ Jarr \in PriorCurrents(cfg)
    /\ \E store \in Stores(cfg) :
         part = [store |-> store, J0 |-> Jarr, calls |-> <<>>]
    /\ phase = "batch"
    /\ par = Unused /\ pml = Unused /\ sol = Unused /\ rz = Unused
    /\ engine = Unused

\* One call of doDepositionShapeN on a range of the container.
CallDirect ==
    /\ phase = "batch"
    /\ cfg.algo = "direct"
    /\ Len(part.calls) < MaxCalls
    /\ \E r \in Ranges :
         /\ Jarr' = doDepositionShapeN(cfg, Jarr, BatchOf(part.store, r))
         /\ part' = [part EXCEPT !.calls = Append(@, r)]
    /\ UNCHANGED <<cfg, phase, par, pml, sol, rz, engine>>

\* One call of doEsirkepovDepositionShapeN on a range of the container.
CallEsirkepov ==
    /\ phase = "batch"
    /\ cfg.algo = "esirkepov"
    /\ Len(part.calls) < MaxCalls
    /\ \E r \in Ranges :
         /\ Jarr' = doEsirkepovDepositionShapeN(cfg, Jarr, BatchOf(part.store, r))
         /\ part' = [part EXCEPT !.calls = Append(@, r)]
    /\ UNCHANGED <<cfg, phase, par, pml, sol, rz, engine>>

BatchNext == CallDirect \/ CallEsirkepov
SpecBatch == BatchInit /\ [][BatchNext]_vars

\* ------------------------------------------------------------ amrex::Real
\* A floating-point number: n/d in lowest terms with d > 0, rounded to
\* MantBits significant bits (round to nearest, ties to even; the exponent
\* range is not bounded); d = 0 holds the IEEE specials: 1/0 is +inf,
\* -1/0 is -inf, 0/0 is NaN.  There is no signed zero.
Abs(n) == IF n < 0 THEN 0 - n ELSE n
Sign(n) == IF n > 0 THEN 1 ELSE IF n < 0 THEN 0 - 1 ELSE 0

RECURSIVE Gcd(_, _)
Gcd(a, b) == IF b = 0 THEN a ELSE Gcd(b, a % b)

RECURSIVE Pow2(_)
Pow2(n) == IF n = 0 THEN 1 ELSE 2 * Pow2(n - 1)

Q(n, d) ==
    IF d = 0 THEN [n |-> Sign(n), d |-> 0]
    ELSE LET g == Gcd(Abs(n), Abs(d))
         IN  [n |-> Sign(d) * Sign(n) * (Abs(n) \div g), d |-> Abs(d) \div g]

NaN == [n |-> 0, d |-> 0]
Zero == [n |-> 0, d |-> 1]
One == [n |-> 1, d |-> 1]
Half == [n |-> 1, d |-> 2]
IsFinite(a) == a.d > 0
IsNaN(a) == a.d = 0 /\ a.n = 0

\* The integer nearest to n/d (n >= 0, d > 0), ties to even.
RoundNearestEven(n, d) ==
    LET q == n \div d
        r == n - q * d
    IN  IF 2 * r > d \/ (2 * r = d /\ q % 2 = 1) THEN q + 1 ELSE q

RECURSIVE FlPos(_, _)
\* n/d > 0 rounded to MantBits significant bits.
FlPos(n, d) ==
    IF n >= Pow2(MantBits) * d
    THEN LET r == FlPos(n, 2 * d) IN Q(2 * r.n, r.d)
    ELSE IF n < Pow2(MantBits - 1) * d
         THEN LET r == FlPos(2 * n, d) IN Q(r.n, 2 * r.d)
         ELSE Q(RoundNearestEven(n, d), 1)

\* The rounding of every arithmetic result.
Fl(a) ==
    IF a.d = 0 \/ a.n = 0 THEN a
    ELSE LET r == FlPos(Abs(a.n), a.d) IN Q(Sign(a.n) * r.n, r.d)

RNeg(a) == [n |-> 0 - a.n, d |-> a.d]
RAdd(a, b) ==
    IF a.d = 0 /\ b.d = 0 THEN (IF a.n = b.n THEN a ELSE NaN)
    ELSE Fl(Q(a.n * b.d + b.n * a.d, a.d * b.d))
RSub(a, b) == RAdd(a, RNeg(b))
RMul(a, b) == Fl(Q(a.n * b.n, a.d * b.d))
RInv(b) ==
    IF b.d = 0 THEN (IF b.n = 0 THEN NaN ELSE Zero)
    ELSE IF b.n = 0 THEN [n |-> 1, d |-> 0]
    ELSE Q(b.d, b.n)
RDiv(a, b) ==
    LET i == RInv(b) IN Fl(Q(a.n * i.n, a.d * i.d))
\* The literal or integer v as a Real.
R(v) == Fl(Q(v, 1))
\* a == 0 and a > 0 of the code (false on NaN).
REqZero(a) == a.d > 0 /\ a.n = 0
RGtZero(a) == a.n > 0

\* ------------------------------------------------------- PML_current.H
\* The damping values (x, y, z) of the model's profiles inside the layer;
\* index 0 of every profile lies outside the layer and holds 0.
SigProfiles == {<<6, 31, 6>>, <<31, 6, 0>>, <<0, 0, 31>>, <<6, 6, 6>>}
SweepProfiles == {<<6, 31, 6>>, <<31, 6, 0>>}
PMLLo == <<1, 2, 3>>

\* The cells (j, k, l) of the box; in the 2-D build k runs along z and l
\* is 0.
PMLCellSet(dim) ==
    IF dim = 3
    THEN {<<PMLLo[1] + a, PMLLo[2] + b, PMLLo[3] + c>> :
             a \in 0..(PMLCells - 1), b \in 0..(PMLCells - 1),
             c \in 0..(PMLCells - 1)}
    ELSE {<<PMLLo[1] + a, PMLLo[3] + b, 0>> :
             a \in 0..(PMLCells - 1), b \in 0..(PMLCells - 1)}

\* The second weight computed from the first coefficient.
PmlAlpha_SameNumerator(s1, s2) ==
    IF REqZero(RAdd(s1, s2)) THEN <<Half, Half>>
    ELSE <<RDiv(s1, RAdd(s1, s2)), RDiv(s1, RAdd(s1, s2))>>
\* The division done whatever the sum of the coefficients.
PmlAlpha_NoGuard(s1, s2) ==
    <<RDiv(s1, RAdd(s1, s2)), RDiv(s2, RAdd(s1, s2))>>
\* alpha_xy, alpha_xz (alpha_yx, alpha_yz; alpha_zx, alpha_zy) of the 3-D
\* build from the two damping coefficients of the cell.
PmlAlpha(s1, s2) ==
    IF REqZero(RAdd(s1, s2)) THEN <<Half, Half>>
    ELSE <<RDiv(s1, RAdd(s1, s2)), RDiv(s2, RAdd(s1, s2))>>

\* The divisors of the divisions done while alpha is computed.
PmlDivisors(s1, s2) ==
    IF REqZero(RAdd(s1, s2)) THEN <<>>
    ELSE <<RAdd(s1, s2), RAdd(s1, s2)>>

\* The record of the last kernel call: its cell, and for a 3-D push the
\* two coefficients read and the two weights used.
LastCall(kernel, cell, sig, alpha) ==
    [kernel |-> kernel, cell |-> cell, sig |-> sig, alpha |-> alpha]

\* Both split components pushed with the first weight.
PushSplit_SameWeight(E, cell, mu, al, jv) ==
    [E EXCEPT ![cell] = <<RSub(@[1], RMul(RMul(mu, al[1]), jv)),
                          RSub(@[2], RMul(RMul(mu, al[1]), jv))>>]
\* E(j,k,l,0) and E(j,k,l,1) are the entries 1 and 2 of the cell's pair.
PushSplit(E, cell, mu, al, jv) ==
    [E EXCEPT ![cell] = <<RSub(@[1], RMul(RMul(mu, al[1]), jv)),
                          RSub(@[2], RMul(RMul(mu, al[2]), jv))>>]

\* The 2-D branch writing the first split component instead of the second.
push_ex_pml_current_FirstComp(P, cell) ==
    IF P.dim = 3
    THEN LET s1 == P.sigj.y[cell[2] - P.lo[2]]
             s2 == P.sigj.z[cell[3] - P.lo[3]]
             al == PmlAlpha(s1, s2)
         IN  [P EXCEPT !.E.x = PushSplit(@, cell, P.mu_c2_dt, al, P.j.x[cell]),
                       !.last = LastCall("push_ex", cell, <<s1, s2>>, al)]
    ELSE [P EXCEPT !.E.x[cell] =
                     <<RSub(@[1], RMul(P.mu_c2_dt, P.j.x[cell])), @[2]>>,
                   !.last = LastCall("push_ex", cell, <<Zero, Zero>>,
                                     <<One, Zero>>)]
push_ex_pml_current(P, cell) ==
    IF P.dim = 3
    THEN LET s1 == P.sigj.y[cell[2] - P.lo[2]]
             s2 == P.sigj.z[cell[3] - P.lo[3]]
             al == PmlAlpha(s1, s2)
         IN  [P EXCEPT !.E.x = PushSplit(@, cell, P.mu_c2_dt, al, P.j.x[cell]),
                       !.last = LastCall("push_ex", cell, <<s1, s2>>, al)]
    ELSE [P EXCEPT !.E.x[cell] =
                     <<@[1], RSub(@[2], RMul(P.mu_c2_dt, P.j.x[cell]))>>,
                   !.last = LastCall("push_ex", cell, <<Zero, Zero>>,
                                     <<Zero, One>>)]

push_ey_pml_current(P, cell) ==
    IF P.dim = 3
    THEN LET s1 == P.sigj.x[cell[1] - P.lo[1]]
             s2 == P.sigj.z[cell[3] - P.lo[3]]
             al == PmlAlpha(s1, s2)
         IN  [P EXCEPT !.E.y = PushSplit(@, cell, P.mu_c2_dt, al, P.j.y[cell]),
                       !.last = LastCall("push_ey", cell, <<s1, s2>>, al)]
    ELSE [P EXCEPT !.E.y[cell] =
                     <<RSub(@[1], RMul(RMul(Half, P.mu_c2_dt), P.j.y[cell])),
                       RSub(@[2], RMul(RMul(Half, P.mu_c2_dt), P.j.y[cell]))>>,
                   !.last = LastCall("push_ey", cell, <<Zero, Zero>>,
                                     <<Half, Half>>)]

\* alpha_zx computed from sigjy and alpha_zy from sigjx.
push_ez_pml_current_Swapped(P, cell) ==
    IF P.dim = 3
    THEN LET s1 == P.sigj.y[cell[2] - P.lo[2]]
             s2 == P.sigj.x[cell[1] - P.lo[1]]
             al == PmlAlpha(s1, s2)
         IN  [P EXCEPT !.E.z = PushSplit(@, cell, P.mu_c2_dt, al, P.j.z[cell]),
                       !.last = LastCall("push_ez", cell, <<s1, s2>>, al)]
    ELSE [P EXCEPT !.E.z[cell] =
                     <<RSub(@[1], RMul(P.mu_c2_dt, P.j.z[cell])), @[2]>>,
                   !.last = LastCall("push_ez", cell, <<Zero, Zero>>,
                                     <<One, Zero>>)]
push_ez_pml_current(P, cell) ==
    IF P.dim = 3
    THEN LET s1 == P.sigj.x[cell[1] - P.lo[1]]
             s2 == P.sigj.y[cell[2] - P.lo[2]]
             al == PmlAlpha(s1, s2)
         IN  [P EXCEPT !.E.z = PushSplit(@, cell, P.mu_c2_dt, al, P.j.z[cell]),
                       !.last = LastCall("push_ez", cell, <<s1, s2>>, al)]
    ELSE [P EXCEPT !.E.z[cell] =
                     <<RSub(@[1], RMul(P.mu_c2_dt, P.j.z[cell])), @[2]>>,
                   !.last = LastCall("push_ez", cell, <<Zero, Zero>>,
                                     <<One, Zero>>)]

\* The current read at the cell's lower x neighbour instead of the cell.
damp_jx_pml_Upwind(P, cell) ==
    LET nb == <<cell[1] - 1, cell[2], cell[3]>>
        from == IF nb \in DOMAIN P.j.x THEN nb ELSE cell
    IN  [P EXCEPT
           !.j.x[cell] =
              IF P.dim = 3
              THEN RMul(RMul(RMul(P.j.x[from], P.sigsj.x[cell[1] - P.lo[1]]),
                             P.sigj.y[cell[2] - P.lo[2]]),
                        P.sigj.z[cell[3] - P.lo[3]])
              ELSE RMul(RMul(P.j.x[from], P.sigsj.x[cell[1] - P.lo[1]]),
                        P.sigj.z[cell[2] - P.lo[3]]),
           !.last = LastCall("damp_jx", cell, <<Zero, Zero>>, <<Zero, Zero>>)]
\* In the 2-D build the second index k of a cell runs along z: sigjz and
\* sigsjz are read at k - zlo.
damp_jx_pml(P, cell) ==
    [P EXCEPT
       !.j.x[cell] =
          IF P.dim = 3
          THEN RMul(RMul(RMul(@, P.sigsj.x[cell[1] - P.lo[1]]),
                         P.sigj.y[cell[2] - P.lo[2]]),
                    P.sigj.z[cell[3] - P.lo[3]])
          ELSE RMul(RMul(@, P.sigsj.x[cell[1] - P.lo[1]]),
                    P.sigj.z[cell[2] - P.lo[3]]),
       !.last = LastCall("damp_jx", cell, <<Zero, Zero>>, <<Zero, Zero>>)]

\* The self-damping coefficient taken on the x axis instead of the y axis.
damp_jy_pml_SelfX(P, cell) ==
    [P EXCEPT
       !.j.y[cell] =
          IF P.dim = 3
          THEN RMul(RMul(RMul(@, P.sigsj.x[cell[1] - P.lo[1]]),
                         P.sigj.y[cell[2] - P.lo[2]]),
                    P.sigj.z[cell[3] - P.lo[3]])
          ELSE RMul(RMul(@, P.sigsj.x[cell[1] - P.lo[1]]),
                    P.sigj.z[cell[2] - P.lo[3]]),
       !.last = LastCall("damp_jy", cell, <<Zero, Zero>>, <<Zero, Zero>>)]
damp_jy_pml(P, cell) ==
    [P EXCEPT
       !.j.y[cell] =
          IF P.dim = 3
          THEN RMul(RMul(RMul(@, P.sigj.x[cell[1] - P.lo[1]]),
                         P.sigsj.y[cell[2] - P.lo[2]]),
                    P.sigj.z[cell[3] - P.lo[3]])
          ELSE RMul(RMul(@, P.sigj.x[cell[1] - P.lo[1]]),
                    P.sigj.z[cell[2] - P.lo[3]]),
       !.last = LastCall("damp_jy", cell, <<Zero, Zero>>, <<Zero, Zero>>)]

\* The current divided by the coefficients instead of multiplied.
damp_jz_pml_Divide(P, cell) ==
    [P EXCEPT
       !.j.z[cell] =
          IF P.dim = 3
          THEN RDiv(RDiv(RDiv(@, P.sigj.x[cell[1] - P.lo[1]]),
                         P.sigj.y[cell[2] - P.lo[2]]),
                    P.sigsj.z[cell[3] - P.lo[3]])
          ELSE RDiv(RDiv(@, P.sigj.x[cell[1] - P.lo[1]]),
                    P.sigsj.z[cell[2] - P.lo[3]]),
       !.last = LastCall("damp_jz", cell, <<Zero, Zero>>, <<Zero, Zero>>)]
damp_jz_pml(P, cell) ==
    [P EXCEPT
       !.j.z[cell] =
          IF P.dim = 3
          THEN RMul(RMul(RMul(@, P.sigj.x[cell[1] - P.lo[1]]),
                         P.sigj.y[cell[2] - P.lo[2]]),
                    P.sigsj.z[cell[3] - P.lo[3]])
          ELSE RMul(RMul(@, P.sigj.x[cell[1] - P.lo[1]]),
                    P.sigsj.z[cell[2] - P.lo[3]]),
       !.last = LastCall("damp_jz", cell, <<Zero, Zero>>, <<Zero, Zero>>)]

\* A damping profile along one axis: 0 at index 0, v inside the layer.
Profile(v) == [n \in 0..(PMLCells - 1) |-> IF n = 0 THEN Zero ELSE R(v)]

PMLInit ==
    /\ phase = "pml"
    /\ \E dim \in {2, 3}, v \in SigProfiles :
         pml = [dim |-> dim, lo |-> PMLLo, calls |-> 0,
                sigj |-> [x |-> Profile(v[1]), y |-> Profile(v[2]),
                          z |-> Profile(v[3])],
                sigsj |-> [x |-> Profile(2), y |-> Profile(2),
                           z |-> Profile(2)],
                mu_c2_dt |-> Half,
                E |-> [c \in {"x", "y", "z"} |->
                         [cell \in PMLCellSet(dim) |-> <<One, One>>]],
                j |-> [c \in {"x", "y", "z"} |->
                         [cell \in PMLCellSet(dim) |-> R(3)]],
                last |-> LastCall("none", <<0, 0, 0>>, <<Zero, Zero>>,
                                  <<Zero, Zero>>)]
    /\ cfg = Unused /\ Jarr = Unused /\ part = Unused
    /\ par = Unused /\ sol = Unused /\ rz = Unused
    /\ engine = Unused

\* One kernel call at one cell of the box.
PMLCall(kernel) ==
    /\ phase = "pml"
    /\ pml.calls < MaxPMLCalls
    /\ \E cell \in PMLCellSet(pml.dim) :
         LET after == CASE kernel = "push_ex" -> push_ex_pml_current(pml, cell)
                        [] kernel = "push_ey" -> push_ey_pml_current(pml, cell)
                        [] kernel = "push_ez" -> push_ez_pml_current(pml, cell)
                        [] kernel = "damp_jx" -> damp_jx_pml(pml, cell)
                        [] kernel = "damp_jy" -> damp_jy_pml(pml, cell)
                        [] kernel = "damp_jz" -> damp_jz_pml(pml, cell)
         IN  pml' = [after EXCEPT !.calls = @ + 1]
    /\ UNCHANGED <<cfg, Jarr, part, phase, par, sol, rz, engine>>

PushEx == PMLCall("push_ex")
PushEy == PMLCall("push_ey")
PushEz == PMLCall("push_ez")
DampJx == PMLCall("damp_jx")
DampJy == PMLCall("damp_jy")
DampJz == PMLCall("damp_jz")

PMLNext == PushEx \/ PushEy \/ PushEz \/ DampJx \/ DampJy \/ DampJz
SpecPML == PMLInit /\ [][PMLNext]_vars

\* ------------------------------------------- PML: other coefficient arrays
\* The kernels read whatever the caller's arrays hold.  The arrays of the
\* calls below: per axis the values at the two indices of the box, for
\* sigj and for sigsj.  The first three hold fractions of [0, 1] (all 1;
\* proper fractions; zeros among them), the last holds values above 1.
Frac(n, d) == Fl(Q(n, d))
CoefArrays ==
    {[sigj  |-> <<<<One, One>>, <<One, One>>, <<One, One>>>>,
      sigsj |-> <<<<One, One>>, <<One, One>>, <<One, One>>>>],
     [sigj  |-> <<<<One, Half>>, <<Frac(3, 4), One>>, <<One, Frac(3, 4)>>>>,
      sigsj |-> <<<<Half, One>>, <<One, Frac(1, 4)>>, <<Frac(3, 4), Half>>>>],
     [sigj  |-> <<<<Zero, Half>>, <<One, Zero>>, <<Frac(3, 4), One>>>>,
      sigsj |-> <<<<One, Zero>>, <<Zero, One>>, <<Half, One>>>>],
     [sigj  |-> <<<<Zero, R(5)>>, <<R(21), Frac(1, 4)>>, <<Zero, R(3)>>>>,
      sigsj |-> <<<<R(2), One>>, <<One, R(2)>>, <<R(2), R(2)>>>>]}
CoefProfile(pair) ==
    [n \in 0..(PMLCells - 1) |-> IF n = 0 THEN pair[1] ELSE pair[2]]

\* The currents before the calls: positive in jx, negative in jy, of
\* either sign or zero in jz.
CoefCurrent(comp, cell) ==
    CASE comp = "x" -> R(cell[1] + 2 * cell[2] + 4 * cell[3])
      [] comp = "y" -> RNeg(R(cell[1] + 2 * cell[2] + 4 * cell[3]))
      [] comp = "z" -> R(2 * cell[1] - cell[2])

PMLCoefInit ==
    /\ phase = "pml"
    /\ \E dim \in {2, 3}, a \in CoefArrays :
         pml = [dim |-> dim, lo |-> PMLLo, calls |-> 0,
                sigj |-> [x |-> CoefProfile(a.sigj[1]),
                          y |-> CoefProfile(a.sigj[2]),
                          z |-> CoefProfile(a.sigj[3])],
                sigsj |-> [x |-> CoefProfile(a.sigsj[1]),
                           y |-> CoefProfile(a.sigsj[2]),
                           z |-> CoefProfile(a.sigsj[3])],
                mu_c2_dt |-> Half,
                E |-> [c \in {"x", "y", "z"} |->
                         [cell \in PMLCellSet(dim) |-> <<One, One>>]],
                j |-> [c \in {"x", "y", "z"} |->
                         [cell \in PMLCellSet(dim) |-> CoefCurrent(c, cell)]],
                last |-> LastCall("none", <<0, 0, 0>>, <<Zero, Zero>>,
                                  <<Zero, Zero>>)]
    /\ cfg = Unused /\ Jarr = Unused /\ part = Unused
    /\ par = Unused /\ sol = Unused /\ rz = Unused
    /\ engine = Unused

SpecPMLCoef == PMLCoefInit /\ [][PMLNext]_vars

\* ------------------------------------------------ PML: one kernel sweep
\* The caller runs one kernel over every cell of the box with
\* amrex::ParallelFor: one thread per cell, in any interleaving.  The
\* statements of a kernel are assignments array(cell) = f(array(cell), ..):
\* a thread first reads what the right-hand sides need, then stores.
PMLKernels == {"push_ex", "push_ey", "push_ez", "damp_jx", "damp_jy", "damp_jz"}

RunKernel(kernel, P, cell) ==
    CASE kernel = "push_ex" -> push_ex_pml_current(P, cell)
      [] kernel = "push_ey" -> push_ey_pml_current(P, cell)
      [] kernel = "push_ez" -> push_ez_pml_current(P, cell)
      [] kernel = "damp_jx" -> damp_jx_pml(P, cell)
      [] kernel = "damp_jy" -> damp_jy_pml(P, cell)
      [] kernel = "damp_jz" -> damp_jz_pml(P, cell)

\* The array a kernel takes by non-const Array4: its field and component.
WrittenArray(kernel) ==
    CASE kernel = "push_ex" -> <<"E", "x">>
      [] kernel = "push_ey" -> <<"E", "y">>
      [] kernel = "push_ez" -> <<"E", "z">>
      [] kernel = "damp_jx" -> <<"j", "x">>
      [] kernel = "damp_jy" -> <<"j", "y">>
      [] kernel = "damp_jz" -> <<"j", "z">>

\* The content of the written array at a cell.
WrittenCell(kernel, P, cell) ==
    LET w == WrittenArray(kernel)
    IN  IF w[1] = "E" THEN P.E[w[2]][cell] ELSE P.j[w[2]][cell]

\* The store of a kernel's assignments: the cell of the written array
\* takes the value the thread computed.
StoreCell(kernel, P, cell, val) ==
    LET w == WrittenArray(kernel)
    IN  IF w[1] = "E" THEN [P EXCEPT !.E[w[2]][cell] = val]
        ELSE [P EXCEPT !.j[w[2]][cell] = val]

\* The fields handed to a sweep differ from cell to cell.
SweepInit ==
    /\ phase = "sweep_idle"
    /\ \E dim \in {2, 3}, v \in SweepProfiles :
         pml = [dim |-> dim, lo |-> PMLLo, calls |-> 0,
                sigj |-> [x |-> Profile(v[1]), y |-> Profile(v[2]),
                          z |-> Profile(v[3])],
                sigsj |-> [x |-> Profile(2), y |-> Profile(2),
                           z |-> Profile(2)],
                mu_c2_dt |-> Half,
                E |-> [c \in {"x", "y", "z"} |->
                         [cell \in PMLCellSet(dim) |->
                            <<R(cell[1] + cell[2]), R(cell[3] + 1)>>]],
                j |-> [c \in {"x", "y", "z"} |->
                         [cell \in PMLCellSet(dim) |->
                            R(cell[1] + 2 * cell[2] + 4 * cell[3])]],
                last |-> LastCall("none", <<0, 0, 0>>, <<Zero, Zero>>,
                                  <<Zero, Zero>>)]
    /\ par = Unused
    /\ cfg = Unused /\ Jarr = Unused /\ part = Unused
    /\ sol = Unused /\ rz = Unused
    /\ engine = Unused

\* The caller launches one kernel over the box.
SweepLaunch ==
    /\ phase = "sweep_idle"
    /\ pml.calls < MaxSweeps
    /\ \E kernel \in PMLKernels :
         par' = [kernel |-> kernel, start |-> pml,
                 todo |-> PMLCellSet(pml.dim), done |-> {},
                 th |-> [t \in 1..NThreads |-> <<>>]]
    /\ phase' = "sweep_running"
    /\ UNCHANGED <<cfg, Jarr, part, pml, sol, rz, engine>>

\* A free thread takes a cell and evaluates the right-hand sides of the
\* kernel's assignments on the arrays as they are now.
SweepRead ==
    /\ phase = "sweep_running"
    /\ \E t \in 1..NThreads, cell \in par.todo :
         /\ par.th[t] = <<>>
         /\ par' = [par EXCEPT
                      !.todo = @ \ {cell},
                      !.th[t] = <<cell, WrittenCell(par.kernel,
                                         RunKernel(par.kernel, pml, cell), cell)>>]
    /\ UNCHANGED <<cfg, Jarr, part, phase, pml, sol, rz, engine>>

\* The thread stores what it computed into its cell.
SweepWrite ==
    /\ phase = "sweep_running"
    /\ \E t \in 1..NThreads :
         /\ par.th[t] # <<>>
         /\ pml' = StoreCell(par.kernel, pml, par.th[t][1], par.th[t][2])
         /\ par' = [par EXCEPT !.th[t] = <<>>, !.done = @ \cup {par.th[t][1]}]
    /\ UNCHANGED <<cfg, Jarr, part, phase, sol, rz, engine>>

\* Every cell is done: the ParallelFor returns.
SweepJoin ==
    /\ phase = "sweep_running"
    /\ par.todo = {}
    /\ \A t \in 1..NThreads : par.th[t] = <<>>
    /\ pml' = [pml EXCEPT !.calls = @ + 1]
    /\ phase' = "sweep_idle"
    /\ UNCHANGED <<cfg, Jarr, part, par, sol, rz, engine>>

SweepNext == SweepLaunch \/ SweepRead \/ SweepWrite \/ SweepJoin
SpecSweep == SweepInit /\ [][SweepNext]_vars

\* ------------------------------------------- CartesianYeeAlgorithm.H
\* The cells (i, j, k) of a field array; in the 2-D build the second index
\* runs along z and k is 0.
GridCells(dim) ==
    IF dim = 3
    THEN {<<i, j, k>> : i \in 0..(SolverCells + 1), j \in 0..(SolverCells + 1),
                        k \in 0..(SolverCells + 1)}
    ELSE {<<i, j, 0>> : i \in 0..(SolverCells + 1), j \in 0..(SolverCells + 1)}
Interior(dim) ==
    IF dim = 3
    THEN {<<i, j, k>> : i \in 1..SolverCells, j \in 1..SolverCells,
                        k \in 1..SolverCells}
    ELSE {<<i, j, 0>> : i \in 1..SolverCells, j \in 1..SolverCells}

\* The x and y coefficients taken from each other's cell size.
InitializeStencilCoefficients_Swapped(cell_size) ==
    [x |-> <<RDiv(One, cell_size[2])>>,
     y |-> <<RDiv(One, cell_size[1])>>,
     z |-> <<RDiv(One, cell_size[3])>>]
\* stencil_coefs_x[0] = 1._rt/cell_size[0], and so on: no check of the
\* cell size.
InitializeStencilCoefficients(cell_size) ==
    [x |-> <<RDiv(One, cell_size[1])>>,
     y |-> <<RDiv(One, cell_size[2])>>,
     z |-> <<RDiv(One, cell_size[3])>>]

\* The difference taken as a sum.
UpwardDx_Sum(F, coefs_x, i, j, k) ==
    RMul(coefs_x[1], RAdd(F[<<i + 1, j, k>>], F[<<i, j, k>>]))
\* inv_dx*( F(i+1,j,k) - F(i,j,k) ); coefs_x[0] is entry 1 of the tuple.
UpwardDx(F, coefs_x, i, j, k) ==
    RMul(coefs_x[1], RSub(F[<<i + 1, j, k>>], F[<<i, j, k>>]))
DownwardDx(F, coefs_x, i, j, k) ==
    RMul(coefs_x[1], RSub(F[<<i, j, k>>], F[<<i - 1, j, k>>]))
\* The 2-D build differencing along the second index as the 3-D build does.
UpwardDy_NotReduced(dim, F, coefs_y, i, j, k) ==
    RMul(coefs_y[1], RSub(F[<<i, j + 1, k>>], F[<<i, j, k>>]))
UpwardDy(dim, F, coefs_y, i, j, k) ==
    IF dim = 3 THEN RMul(coefs_y[1], RSub(F[<<i, j + 1, k>>], F[<<i, j, k>>]))
    ELSE Zero
DownwardDy(dim, F, coefs_y, i, j, k) ==
    IF dim = 3 THEN RMul(coefs_y[1], RSub(F[<<i, j, k>>], F[<<i, j - 1, k>>]))
    ELSE Zero
UpwardDz(dim, F, coefs_z, i, j, k) ==
    IF dim = 3 THEN RMul(coefs_z[1], RSub(F[<<i, j, k + 1>>], F[<<i, j, k>>]))
    ELSE RMul(coefs_z[1], RSub(F[<<i, j + 1, k>>], F[<<i, j, k>>]))
DownwardDz(dim, F, coefs_z, i, j, k) ==
    IF dim = 3 THEN RMul(coefs_z[1], RSub(F[<<i, j, k>>], F[<<i, j, k - 1>>]))
    ELSE RMul(coefs_z[1], RSub(F[<<i, j, k>>], F[<<i, j - 1, k>>]))

\* --------------------------------------------- FiniteDifferenceSolver.H
\* The constructor: stores the algorithm and the staggering, and
\* initializes the stencil coefficients from the cell size.
FiniteDifferenceSolver(fdtd_algo, cell_size, do_nodal) ==
    [m_fdtd_algo |-> fdtd_algo, m_do_nodal |-> do_nodal,
     m_stencil_coefs |-> InitializeStencilCoefficients(cell_size)]

\* Physical constants in the units of the model.
c2 == One
inv_eps0 == One

\* EvolveB that also zeroes the current it does not take.
EvolveB_ClearsJ(S, dt) ==
    [S EXCEPT !.B = [x |-> S.B.x, y |-> S.B.y, z |-> S.B.z],
              !.J = [x |-> [c \in DOMAIN S.J.x |-> Zero],
                     y |-> [c \in DOMAIN S.J.y |-> Zero],
                     z |-> [c \in DOMAIN S.J.z |-> Zero]]]
\* B <- B - dt*curl(E) on the interior cells, by upward differences.
EvolveB(S, dt) ==
    LET cf == S.fds.m_stencil_coefs
        d == S.dim
        Bx(c) == RAdd(S.B.x[c],
                   RSub(RMul(dt, UpwardDz(d, S.E.y, cf.z, c[1], c[2], c[3])),
                        RMul(dt, UpwardDy(d, S.E.z, cf.y, c[1], c[2], c[3]))))
        By(c) == RAdd(S.B.y[c],
                   RSub(RMul(dt, UpwardDx(S.E.z, cf.x, c[1], c[2], c[3])),
                        RMul(dt, UpwardDz(d, S.E.x, cf.z, c[1], c[2], c[3]))))
        Bz(c) == RAdd(S.B.z[c],
                   RSub(RMul(dt, UpwardDy(d, S.E.x, cf.y, c[1], c[2], c[3])),
                        RMul(dt, UpwardDx(S.E.y, cf.x, c[1], c[2], c[3]))))
    IN  [S EXCEPT !.B =
           [x |-> [c \in DOMAIN S.B.x |->
                     IF c \in Interior(d) THEN Bx(c) ELSE S.B.x[c]],
            y |-> [c \in DOMAIN S.B.y |->
                     IF c \in Interior(d) THEN By(c) ELSE S.B.y[c]],
            z |-> [c \in DOMAIN S.B.z |->
                     IF c \in Interior(d) THEN Bz(c) ELSE S.B.z[c]]]]

\* E <- E + c2*dt*curl(B) - dt/eps0*J on the interior cells, by downward
\* differences, minus the gradient of F when F is given.
EvolveE(S, dt) ==
    LET cf == S.fds.m_stencil_coefs
        d == S.dim
        Push(e, curl, jv) ==
            RAdd(e, RSub(RMul(RMul(c2, dt), curl),
                         RMul(RMul(dt, inv_eps0), jv)))
        Grad(v, g) == IF S.has_F THEN RSub(v, RMul(RMul(c2, dt), g)) ELSE v
        Ex(c) == Grad(Push(S.E.x[c],
                    RAdd(RNeg(DownwardDz(d, S.B.y, cf.z, c[1], c[2], c[3])),
                         DownwardDy(d, S.B.z, cf.y, c[1], c[2], c[3])),
                    S.J.x[c]),
                  UpwardDx(S.F, cf.x, c[1], c[2], c[3]))
        Ey(c) == Grad(Push(S.E.y[c],
                    RAdd(RNeg(DownwardDx(S.B.z, cf.x, c[1], c[2], c[3])),
                         DownwardDz(d, S.B.x, cf.z, c[1], c[2], c[3])),
                    S.J.y[c]),
                  UpwardDy(d, S.F, cf.y, c[1], c[2], c[3]))
        Ez(c) == Grad(Push(S.E.z[c],
                    RAdd(RNeg(DownwardDy(d, S.B.x, cf.y, c[1], c[2], c[3])),
                         DownwardDx(S.B.y, cf.x, c[1], c[2], c[3])),
                    S.J.z[c]),
                  UpwardDz(d, S.F, cf.z, c[1], c[2], c[3]))
    IN  [S EXCEPT !.E =
           [x |-> [c \in DOMAIN S.E.x |->
                     IF c \in Interior(d) THEN Ex(c) ELSE S.E.x[c]],
            y |-> [c \in DOMAIN S.E.y |->
                     IF c \in Interior(d) THEN Ey(c) ELSE S.E.y[c]],
            z |-> [c \in DOMAIN S.E.z |->
                     IF c \in Interior(d) THEN Ez(c) ELSE S.E.z[c]]]]

\* F <- F + dt*(div(E) - rho/eps0) on the interior cells.
EvolveF(S, dt) ==
    LET cf == S.fds.m_stencil_coefs
        d == S.dim
        divE(c) == RAdd(RAdd(DownwardDx(S.E.x, cf.x, c[1], c[2], c[3]),
                             DownwardDy(d, S.E.y, cf.y, c[1], c[2], c[3])),
                        DownwardDz(d, S.E.z, cf.z, c[1], c[2], c[3]))
    IN  [S EXCEPT !.F =
           [c \in DOMAIN S.F |->
              IF c \in Interior(d)
              THEN RAdd(S.F[c], RMul(dt, RSub(divE(c), RMul(S.rho[c], inv_eps0))))
              ELSE S.F[c]]]

\* A field array holding v everywhere, but w at the cells of the set odd.
FieldOf(dim, v, odd, w) ==
    [c \in GridCells(dim) |-> IF c \in odd THEN R(w) ELSE R(v)]
Vec(dim, vx, vy, vz, odd, w) ==
    [x |-> FieldOf(dim, vx, {}, 0), y |-> FieldOf(dim, vy, odd, w),
     z |-> FieldOf(dim, vz, {}, 0)]

\* The solver and the fields it is applied to, as the grid manager hands
\* them over: E and B uniform, or with one guard cell of Ey and By off;
\* J zero or uniform.
Grid(dim, cell_size, uniform, jv, has_F) ==
    LET odd == IF uniform THEN {} ELSE {<<0, 1, IF dim = 3 THEN 1 ELSE 0>>}
        E0 == Vec(dim, 1, 2, 3, odd, 7)
        B0 == Vec(dim, 4, 5, 6, odd, 1)
    IN  [dim |-> dim,
         cell_size |-> cell_size,
         fds |-> FiniteDifferenceSolver("Yee", cell_size, FALSE),
         E |-> E0, B |-> B0, J |-> Vec(dim, jv, jv, jv, {}, 0),
         F |-> FieldOf(dim, 0, {}, 0), rho |-> FieldOf(dim, 0, {}, 0),
         has_F |-> has_F, init |-> [E |-> E0, B |-> B0],
         hist |-> <<>>, step |-> 1, stage |-> "deposit",
         species |-> [sp \in 1..NSpecies |-> "todo"]]

\* --------------------------------------- the field-update primitives
CellSizes == {<<R(1), R(2), R(4)>>, <<R(2), R(1), R(1)>>}
TimeSteps == {1, 3}
Event(ev, n) == [ev |-> ev, n |-> n]

SolverInit ==
    /\ phase = "solver"
    /\ \E dim \in {2, 3}, cs \in CellSizes, uniform \in BOOLEAN, jv \in {0, 1} :
         sol = Grid(dim, cs, uniform, jv, FALSE)
    /\ cfg = Unused /\ Jarr = Unused /\ part = Unused
    /\ par = Unused /\ pml = Unused /\ rz = Unused
    /\ engine = Unused

CallEvolveB ==
    /\ phase = "solver"
    /\ Len(sol.hist) < MaxSolverCalls
    /\ \E dt \in TimeSteps :
         sol' = [EvolveB(sol, R(dt)) EXCEPT !.hist = Append(@, Event("EvolveB", dt))]
    /\ UNCHANGED <<cfg, Jarr, part, phase, par, pml, rz, engine>>

CallEvolveE ==
    /\ phase = "solver"
    /\ Len(sol.hist) < MaxSolverCalls
    /\ \E dt \in TimeSteps :
         sol' = [EvolveE(sol, R(dt)) EXCEPT !.hist = Append(@, Event("EvolveE", dt))]
    /\ UNCHANGED <<cfg, Jarr, part, phase, par, pml, rz, engine>>

SolverNext == CallEvolveB \/ CallEvolveE
SpecSolver == SolverInit /\ [][SolverNext]_vars

\* ------------------------------------------------- the time stepper
AnyCellSizes == CellSizes \cup {<<R(0), R(1), R(1)>>, <<R(1), R(1), R(0)>>}
StepDt == R(1)

StepInit ==
    /\ phase = "unbuilt"
    /\ sol = Unused
    /\ cfg = Unused /\ Jarr = Unused /\ part = Unused
    /\ par = Unused /\ pml = Unused /\ rz = Unused
    /\ engine = Unused

\* The solver is constructed from the cell size of the input deck.
Construct ==
    /\ phase = "unbuilt"
    /\ \E dim \in {2, 3}, cs \in AnyCellSizes, has_F \in BOOLEAN :
         sol' = Grid(dim, cs, FALSE, 0, has_F)
    /\ phase' = "stepping"
    /\ UNCHANGED <<cfg, Jarr, part, par, pml, rz, engine>>

AddCurrent(V, v) ==
    [comp \in {"x", "y", "z"} |->
       [c \in DOMAIN V[comp] |-> RAdd(V[comp][c], R(v))]]

BeginDeposit(sp) ==
    /\ phase = "stepping"
    /\ sol.stage = "deposit"
    /\ sol.species[sp] = "todo"
    /\ sol' = [sol EXCEPT !.species[sp] = "running",
                          !.hist = Append(@, Event("deposit_begin", sp))]
    /\ UNCHANGED <<cfg, Jarr, part, phase, par, pml, rz, engine>>

EndDeposit(sp) ==
    /\ phase = "stepping"
    /\ sol.stage = "deposit"
    /\ sol.species[sp] = "running"
    /\ sol' = [sol EXCEPT !.species[sp] = "done",
                          !.J = AddCurrent(@, sp),
                          !.hist = Append(@, Event("deposit_end", sp))]
    /\ UNCHANGED <<cfg, Jarr, part, phase, par, pml, rz, engine>>

\* Deposition neglected for all but one species.
AllDeposited_Any(S) == \E sp \in 1..NSpecies : S.species[sp] = "done"
AllDeposited(S) == \A sp \in 1..NSpecies : S.species[sp] = "done"

StepEvolveE ==
    /\ phase = "stepping"
    /\ sol.stage = "deposit"
    /\ AllDeposited(sol)
    /\ sol' = [EvolveE(sol, StepDt) EXCEPT
                  !.stage = "E", !.hist = Append(@, Event("EvolveE", sol.step))]
    /\ UNCHANGED <<cfg, Jarr, part, phase, par, pml, rz, engine>>

StepEvolveB ==
    /\ phase = "stepping"
    /\ sol.stage = "E"
    /\ sol' = [EvolveB(sol, StepDt) EXCEPT
                  !.stage = "B", !.hist = Append(@, Event("EvolveB", sol.step))]
    /\ UNCHANGED <<cfg, Jarr, part, phase, par, pml, rz, engine>>

StepEvolveF ==
    /\ phase = "stepping"
    /\ sol.stage = "B"
    /\ sol.has_F
    /\ sol' = [EvolveF(sol, StepDt) EXCEPT
                  !.stage = "F", !.hist = Append(@, Event("EvolveF", sol.step))]
    /\ UNCHANGED <<cfg, Jarr, part, phase, par, pml, rz, engine>>

\* The step ends; the next one starts from a zeroed current.
EndStep ==
    /\ phase = "stepping"
    /\ sol.stage \in {"B", "F"}
    /\ sol.step < MaxSteps
    /\ sol' = [sol EXCEPT !.stage = "deposit", !.step = @ + 1,
                          !.J = Vec(sol.dim, 0, 0, 0, {}, 0),
                          !.species = [sp \in 1..NSpecies |-> "todo"],
                          !.hist = <<>>]
    /\ UNCHANGED <<cfg, Jarr, part, phase, par, pml, rz, engine>>

StepNext ==
    \/ Construct
    \/ \E sp \in 1..NSpecies : BeginDeposit(sp)
    \/ \E sp \in 1..NSpecies : EndDeposit(sp)
    \/ StepEvolveE
    \/ StepEvolveB
    \/ StepEvolveF
    \/ EndStep
SpecStep == StepInit /\ [][StepNext]_vars

\* ------------------------------------- cylindrical geometry: the direction
RECURSIVE ISqrt(_)
\* The integer part of the square root of n >= 0.
ISqrt(n) ==
    IF n < 2 THEN n
    ELSE LET r == 2 * ISqrt(n \div 4)
         IN  IF (r + 1) * (r + 1) <= n THEN r + 1 ELSE r

RECURSIVE RSqrt(_)
\* std::sqrt: the correctly rounded square root (NaN of a negative value).
RSqrt(a) ==
    IF a.n < 0 THEN NaN
    ELSE IF a.d = 0 \/ a.n = 0 THEN a
    ELSE IF a.d % 4 = 0
         THEN LET r == RSqrt(Q(a.n, a.d \div 4)) IN Q(r.n, 2 * r.d)
    ELSE IF a.n % 4 = 0
         THEN LET r == RSqrt(Q(a.n \div 4, a.d)) IN Q(2 * r.n, r.d)
    ELSE LET k == MantBits + 1
             N == a.n * a.d * Pow2(2 * k)
             r == ISqrt(N)
         IN  Fl(Q(IF r * r = N THEN 2 * r ELSE 2 * r + 1, 2 * a.d * Pow2(k)))

\* The division done whatever the radius.
PolarDirection_NoGuard(x, y, r) ==
    [x |-> x, y |-> y, r |-> r,
     costheta |-> RDiv(x, r), sintheta |-> RDiv(y, r), divided |-> TRUE]
\* cos and sin of the angle of (x, y), whose radius is r; divided records
\* whether the division by r was done.
PolarDirection(x, y, r) ==
    IF RGtZero(r)
    THEN [x |-> x, y |-> y, r |-> r,
          costheta |-> RDiv(x, r), sintheta |-> RDiv(y, r), divided |-> TRUE]
    ELSE [x |-> x, y |-> y, r |-> r,
          costheta |-> One, sintheta |-> Zero, divided |-> FALSE]

Radius(x, y) == RSqrt(RAdd(RMul(x, x), RMul(y, y)))

\* Direct deposition: the direction at the mid point and the radial and
\* azimuthal particle currents.
DirectPolar(p) ==
    LET vx == RMul(p.uxp, p.gaminv)
        vy == RMul(p.uyp, p.gaminv)
        xpmid == RSub(p.xp, RMul(RMul(Half, p.dt), vx))
        ypmid == RSub(p.yp, RMul(RMul(Half, p.dt), vy))
        xy0 == PolarDirection(xpmid, ypmid, Radius(xpmid, ypmid))
    IN  [dirs |-> <<xy0>>,
         wqx |-> RMul(RMul(p.wq, p.invvol),
                      RAdd(RMul(vx, xy0.costheta), RMul(vy, xy0.sintheta))),
         wqy |-> RMul(RMul(p.wq, p.invvol),
                      RAdd(RMul(RNeg(vx), xy0.sintheta), RMul(vy, xy0.costheta)))]

\* Esirkepov deposition: the directions at the new, mid and old positions
\* and the new and old radial coordinates in grid units.
EsirkepovPolar(p) ==
    LET xp_mid == RSub(p.xp, RMul(RMul(RMul(Half, p.dt), p.uxp), p.gaminv))
        yp_mid == RSub(p.yp, RMul(RMul(RMul(Half, p.dt), p.uyp), p.gaminv))
        xp_old == RSub(p.xp, RMul(RMul(p.dt, p.uxp), p.gaminv))
        yp_old == RSub(p.yp, RMul(RMul(p.dt, p.uyp), p.gaminv))
        rp_new == Radius(p.xp, p.yp)
        rp_mid == Radius(xp_mid, yp_mid)
        rp_old == Radius(xp_old, yp_old)
    IN  [dirs |-> <<PolarDirection(p.xp, p.yp, rp_new),
                    PolarDirection(xp_mid, yp_mid, rp_mid),
                    PolarDirection(xp_old, yp_old, rp_old)>>,
         x_new |-> RMul(RSub(rp_new, p.xmin), p.dxi),
         x_old |-> RMul(RSub(rp_old, p.xmin), p.dxi)]

RZParticles ==
    [xp : {R(0), R(3), Q(3, 128)}, yp : {R(0), R(4), Q(4, 128)},
     uxp : {R(0), R(6)}, uyp : {R(0), R(8)}, gaminv : {One, Half},
     dt : {One}, wq : {R(2)}, invvol : {One}, xmin : {Zero}, dxi : {One}]

RZInit ==
    /\ phase = "rz"
    /\ \E p \in RZParticles : rz = [p |-> p, algo |-> "none", out |-> <<>>]
    /\ engine = Unused
    /\ cfg = Unused /\ Jarr = Unused /\ part = Unused
    /\ par = Unused /\ pml = Unused /\ sol = Unused

RZDirect ==
    /\ phase = "rz"
    /\ rz.algo = "none"
    /\ rz' = [rz EXCEPT !.algo = "direct", !.out = DirectPolar(rz.p)]
    /\ UNCHANGED <<cfg, Jarr, part, phase, par, pml, sol, engine>>

RZEsirkepov ==
    /\ phase = "rz"
    /\ rz.algo = "none"
    /\ rz' = [rz EXCEPT !.algo = "esirkepov", !.out = EsirkepovPolar(rz.p)]
    /\ UNCHANGED <<cfg, Jarr, part, phase, par, pml, sol, engine>>

\* The loop goes on to the next particle.
RZNextParticle ==
    /\ phase = "rz"
    /\ rz.algo # "none"
    /\ \E p \in RZParticles : rz' = [p |-> p, algo |-> "none", out |-> <<>>]
    /\ UNCHANGED <<cfg, Jarr, part, phase, par, pml, sol, engine>>

RZNext == RZDirect \/ RZEsirkepov \/ RZNextParticle
SpecRZ == RZInit /\ [][RZNext]_vars


\* ------------------------------ cylindrical geometry: direct deposition
\* amrex::Real in exact arithmetic: the deposited amounts are followed as
\* rational numbers, without the rounding of each operation.
XAdd(a, b) == Q(a.n * b.d + b.n * a.d, a.d * b.d)
XNeg(a) == [n |-> 0 - a.n, d |-> a.d]
XSub(a, b) == XAdd(a, XNeg(b))
XMul(a, b) == Q(a.n * b.n, a.d * b.d)
XDiv(a, b) == Q(a.n * b.d, a.d * b.n)
\* std::sqrt, exact on the squares of rational numbers.
XSqrt(a) == Q(ISqrt(a.n), ISqrt(a.d))
XInt(v) == Q(v, 1)

\* costheta, sintheta at the mid point (lines 113-125), exact.
RZMidDirection(p) ==
    LET vx == XMul(p.uxp, p.gaminv)
        vy == XMul(p.uyp, p.gaminv)
        xpmid == XSub(p.xp, XMul(XMul(Half, p.dt), vx))
        ypmid == XSub(p.yp, XMul(XMul(Half, p.dt), vy))
        rpmid == XSqrt(XAdd(XMul(xpmid, xpmid), XMul(ypmid, ypmid)))
    IN  IF rpmid.n > 0
        THEN [rpmid |-> rpmid, re |-> XDiv(xpmid, rpmid), im |-> XDiv(ypmid, rpmid)]
        ELSE [rpmid |-> rpmid, re |-> One, im |-> Zero]

\* The azimuthal current with the wrong sign of the first term.
RZAzimuthal_NoMinus(vx, vy, xy0) == XAdd(XMul(vx, xy0.im), XMul(vy, xy0.re))
\* +vx*costheta + vy*sintheta and -vx*sintheta + vy*costheta.
RZRadial(vx, vy, xy0) == XAdd(XMul(vx, xy0.re), XMul(vy, xy0.im))
RZAzimuthal(vx, vy, xy0) == XAdd(XMul(XNeg(vx), xy0.im), XMul(vy, xy0.re))

\* wqx (radial), wqy (azimuthal), wqz of the cylindrical build.
RZWq(c, p, comp) ==
    LET vx == XMul(p.uxp, p.gaminv)
        vy == XMul(p.uyp, p.gaminv)
        vz == XMul(p.uzp, p.gaminv)
        wq == XMul(c.q, p.wp)
        invvol == XMul(c.dxi, c.dzi)
        xy0 == RZMidDirection(p)
    IN  XMul(XMul(wq, invvol),
             CASE comp = "x" -> RZRadial(vx, vy, xy0)
               [] comp = "y" -> RZAzimuthal(vx, vy, xy0)
               [] comp = "z" -> vz)

\* xmid = (rpmid - xmin)*dxi and zmid = (zp - zmin)*dzi - dts2dz*vz.
RZMidCoord(c, p, a) ==
    IF a = 1
    THEN XMul(XSub(RZMidDirection(p).rpmid, c.xmin), c.dxi)
    ELSE XSub(XMul(XSub(p.zp, c.zmin), c.dzi),
              XMul(XMul(XMul(Half, p.dt), c.dzi), XMul(p.uzp, p.gaminv)))

\* The shape factor of component comp along axis a (1 = r, 3 = z): at the
\* mid coordinate for NODE, half a cell lower for CELL.
RZShape(c, p, comp, a) ==
    LET x == IF JType(c, comp, a) = "NODE" THEN RZMidCoord(c, p, a)
             ELSE XSub(RZMidCoord(c, p, a), Half)
        sf == compute_shape_factor(c.order, x.n, x.d)
    IN  [j |-> sf.j,
         s |-> [i \in 0..c.order |-> Q(sf.s[i], ShapeDen(c.order, x.d))]]

\* Complex operator*: xy*xy0.
ComplexMul(a, b) ==
    [re |-> XSub(XMul(a.re, b.re), XMul(a.im, b.im)),
     im |-> XAdd(XMul(a.re, b.im), XMul(a.im, b.re))]
RECURSIVE ModeFactor(_, _)
\* xy at the iteration imode of the loop over the modes: xy0, then
\* xy = xy*xy0 after each mode.
ModeFactor(xy0, imode) ==
    IF imode = 1 THEN [re |-> xy0.re, im |-> xy0.im]
    ELSE ComplexMul(ModeFactor(xy0, imode - 1), xy0)

\* The factor 2 of the mode normalization left out.
ModeAmount_NoTwo(sx, sz, wq, t) == XMul(XMul(XMul(sx, sz), wq), t)
\* 2.*sx[ix]*sz[iz]*wq*xy.real() (or xy.imag()).
ModeAmount(sx, sz, wq, t) == XMul(XMul(XMul(XMul(XInt(2), sx), sz), wq), t)

\* What the iteration of a particle holds when it reaches the deposition
\* loops: xy0, and per current component wq and the shape factors along r
\* and z.
RZLocals(c, p) ==
    [xy0 |-> RZMidDirection(p),
     wq |-> [comp \in {"x", "y", "z"} |-> RZWq(c, p, comp)],
     sx |-> [comp \in {"x", "y", "z"} |-> RZShape(c, p, comp, 1)],
     sz |-> [comp \in {"x", "y", "z"} |-> RZShape(c, p, comp, 3)]]

\* The number of Atomic::Add calls of one particle.
RZAddCount(c) == (c.order + 1) * (c.order + 1) * (3 + 6 * (c.nmodes - 1))

\* The n-th Atomic::Add of a particle in program order (lines 204-230): for
\* each iz, ix the three mode-0 adds, then for every mode imode >= 1 the
\* real part into component 2*imode-1 and the imaginary part into
\* component 2*imode of jx, jy, jz.
RZAddAt(c, loc, n) ==
    LET n1 == c.order + 1
        perCell == 3 + 6 * (c.nmodes - 1)
        blk == (n - 1) \div perCell
        r == (n - 1) % perCell
        ix == blk % n1
        iz == blk \div n1
        comp == IF r < 3 THEN CompOf(r) ELSE CompOf(((r - 3) % 6) \div 2)
        imode == 1 + ((r - 3) \div 6)
    IN  IF r < 3
        THEN AddOp(comp, <<loc.sx[comp].j + ix, loc.sz[comp].j + iz, 0>>,
                   XMul(XMul(loc.sx[comp].s[ix], loc.sz[comp].s[iz]),
                        loc.wq[comp]))
        ELSE IF (r - 3) % 2 = 0
        THEN AddOp(comp,
                   <<loc.sx[comp].j + ix, loc.sz[comp].j + iz, 2 * imode - 1>>,
                   ModeAmount(loc.sx[comp].s[ix], loc.sz[comp].s[iz],
                              loc.wq[comp], ModeFactor(loc.xy0, imode).re))
        ELSE AddOp(comp,
                   <<loc.sx[comp].j + ix, loc.sz[comp].j + iz, 2 * imode>>,
                   ModeAmount(loc.sx[comp].s[ix], loc.sz[comp].s[iz],
                              loc.wq[comp], ModeFactor(loc.xy0, imode).im))

\* amrex::Gpu::Atomic::Add on a cylindrical current array.
RZAtomicAdd(J, op) == [J EXCEPT ![op.comp][op.idx] = XAdd(@, op.val)]

\* jx_arr, jy_arr, jz_arr of the cylindrical build: (r, z, component).
RZIdx == (0..RZCells) \X (0..RZCells) \X (0..(2 * MaxModes - 2))
RZZeroJ == [comp \in {"x", "y", "z"} |-> [i \in RZIdx |-> Zero]]

\* A particle turned by a quarter turn about the axis: position and
\* momentum.
Rot90(p) ==
    [p EXCEPT !.xp = XNeg(p.yp), !.yp = p.xp,
              !.uxp = XNeg(p.uyp), !.uyp = p.uxp]
RECURSIVE RotBy(_, _)
RotBy(p, n) == IF n = 0 THEN p ELSE Rot90(RotBy(p, n - 1))
\* k copies of p turned by the multiples of 2 pi / k (k divides 4).
RotatedCopies(p, k) == [j \in 1..k |-> RotBy(p, (j - 1) * (4 \div k))]

RZDepConfigs ==
    [order : 0..1, nmodes : 1..MaxModes, nodal : {FALSE}, q : {XInt(2)},
     dxi : {Half}, dzi : {One}, xmin : {XInt(0 - 2)}, zmin : {Zero}]
RZDepParticles ==
    {[xp |-> XInt(3), yp |-> XInt(4), zp |-> XInt(3),
      uxp |-> XInt(u[1]), uyp |-> XInt(u[2]), uzp |-> XInt(uz),
      gaminv |-> One, dt |-> One, wp |-> XInt(3)] :
        u \in {<<0 - 2, 2>>, <<6, 8>>, <<0, 0>>}, uz \in 0..1}

RZDepInit ==
    /\ phase = "rzdep"
    /\ \E c \in RZDepConfigs, p \in RZDepParticles, k \in {1, 2, 4} :
          rz = [c |-> c, batch |-> RotatedCopies(p, k), ip |-> 0,
                running |-> FALSE, loc |-> "none", pc |-> 0, adds |-> <<>>,
                J |-> RZZeroJ]
    /\ cfg = Unused /\ Jarr = Unused /\ part = Unused
    /\ par = Unused /\ pml = Unused /\ sol = Unused
    /\ engine = Unused

\* The iteration of the ParallelFor for particle ip runs up to the
\* deposition loops.
RZStart ==
    /\ phase = "rzdep"
    /\ ~rz.running
    /\ rz.ip < Len(rz.batch)
    /\ rz' = [rz EXCEPT !.running = TRUE, !.pc = 0, !.adds = <<>>,
                        !.loc = RZLocals(rz.c, rz.batch[rz.ip + 1])]
    /\ UNCHANGED <<cfg, Jarr, part, phase, par, pml, sol, engine>>

\* The next Atomic::Add of the iteration (rz.adds keeps what it has added);
\* the iteration ends with its last add.
RZAdd ==
    /\ phase = "rzdep"
    /\ rz.running
    /\ \E op \in {RZAddAt(rz.c, rz.loc, rz.pc + 1)} :
         rz' = [rz EXCEPT !.J = RZAtomicAdd(@, op),
                          !.adds = Append(@, op),
                          !.pc = @ + 1,
                          !.running = rz.pc + 1 < RZAddCount(rz.c),
                          !.ip = IF rz.pc + 1 < RZAddCount(rz.c) THEN @
                                 ELSE @ + 1]
    /\ UNCHANGED <<cfg, Jarr, part, phase, par, pml, sol, engine>>

RZDepNext == RZStart \/ RZAdd
SpecRZDep == RZDepInit /\ [][RZDepNext]_vars

\* --------------------------------------- BreitWheelerEngineWrapper.H
\* The raw data handed to init_lookup_tables_from_raw_data, as sequences of
\* bytes.  The binary layout belongs to the library; in the model a vector
\* parses when it starts with the number of bytes that follow it.
RawData == {<<>>, <<0>>, <<1, 7>>, <<2, 7, 9>>, <<2, 7>>, <<5>>, <<1, 7, 9>>}
Parses(raw) == Len(raw) >= 1 /\ raw[1] = Len(raw) - 1
\* What a table holds: nothing yet, or the payload it was built from.
NoTables == <<>>
DummyTables == <<3, 3>>
ComputedTables == <<4, 4, 4>>
Serialize(tables) == <<Len(tables)>> \o tables

\* A new engine whose tables count as initialized.
BreitWheelerEngine_Initialized ==
    [m_lookup_tables_initialized |-> TRUE, m_innards |-> NoTables]
\* The members of a new object: m_lookup_tables_initialized = false and
\* default-constructed innards.
BreitWheelerEngine ==
    [m_lookup_tables_initialized |-> FALSE, m_innards |-> NoTables]

\* Each member function gives the object after the call and what the
\* call returns (ret; "void" when it returns nothing).
are_lookup_tables_initialized(obj) ==
    [obj |-> obj, ret |-> obj.m_lookup_tables_initialized]

init_lookup_tables_from_raw_data(obj, raw_data) ==
    IF Parses(raw_data)
    THEN [obj |-> [obj EXCEPT !.m_lookup_tables_initialized = TRUE,
                              !.m_innards = Tail(raw_data)],
          ret |-> TRUE]
    ELSE [obj |-> obj, ret |-> FALSE]

init_dummy_tables(obj) ==
    [obj |-> [obj EXCEPT !.m_lookup_tables_initialized = TRUE,
                         !.m_innards = DummyTables],
     ret |-> "void"]

export_lookup_tables_data(obj) ==
    [obj |-> obj,
     ret |-> IF obj.m_lookup_tables_initialized
             THEN Serialize(obj.m_innards) ELSE <<>>]

\* Does nothing unless the build defines WARPX_QED_TABLE_GEN.
compute_lookup_tables(obj, table_gen) ==
    [obj |-> IF table_gen
             THEN [obj EXCEPT !.m_lookup_tables_initialized = TRUE,
                              !.m_innards = ComputedTables]
             ELSE obj,
     ret |-> "void"]

\* build_optical_depth_functor, build_evolve_functor, build_pair_functor,
\* get_default_ctrl, get_ref_ctrl: the tables and the flag are only read.
build_functor(obj) == [obj |-> obj, ret |-> "functor"]

\* A call as the history keeps it.
EngineCall(op, arg, ret) == [op |-> op, arg |-> arg, ret |-> ret]

EngineInit ==
    /\ phase = "engine_unbuilt"
    /\ engine \in [table_gen : BOOLEAN, obj : {"none"}, hist : {<<>>}]
    /\ cfg = Unused /\ Jarr = Unused /\ part = Unused /\ par = Unused
    /\ pml = Unused /\ sol = Unused /\ rz = Unused

Construct_Engine ==
    /\ phase = "engine_unbuilt"
    /\ engine' = [engine EXCEPT !.obj = BreitWheelerEngine]
    /\ phase' = "engine"
    /\ UNCHANGED <<cfg, Jarr, part, par, pml, sol, rz>>

\* One call on the object: the object becomes what the call leaves and
\* the history keeps the call with what it returned.
EngineDoes(op, arg, res) ==
    /\ phase = "engine"
    /\ Len(engine.hist) < MaxEngineCalls
    /\ engine' = [engine EXCEPT !.obj = res.obj,
                                !.hist = Append(@, EngineCall(op, arg, res.ret))]
    /\ UNCHANGED <<cfg, Jarr, part, phase, par, pml, sol, rz>>

CallAreInitialized ==
    EngineDoes("are_lookup_tables_initialized", <<>>,
               are_lookup_tables_initialized(engine.obj))
CallInitFromRawData ==
    \E raw \in RawData :
       EngineDoes("init_lookup_tables_from_raw_data", raw,
                  init_lookup_tables_from_raw_data(engine.obj, raw))
CallInitDummy ==
    EngineDoes("init_dummy_tables", <<>>, init_dummy_tables(engine.obj))
CallExport ==
    EngineDoes("export_lookup_tables_data", <<>>,
               export_lookup_tables_data(engine.obj))
CallCompute ==
    EngineDoes("compute_lookup_tables", <<>>,
               compute_lookup_tables(engine.obj, engine.table_gen))
CallBuildFunctor ==
    EngineDoes("build_functor", <<>>, build_functor(engine.obj))

EngineNext ==
    \/ Construct_Engine
    \/ CallAreInitialized
    \/ CallInitFromRawData
    \/ CallInitDummy
    \/ CallExport
    \/ CallCompute
    \/ CallBuildFunctor
SpecEngine == EngineInit /\ [][EngineNext]_vars

\* ------------------------------- Cartesian builds: the particle coordinates
\* The locals both routines compute from the particle before any shape
\* factor, in exact arithmetic.  clightsq = 1/c^2, in the model's units
\* c = 2.
clightsq == Q(1, 4)

\* dx, dt and xyzmin of the calls.
CoordBuilds ==
    [dim : {2, 3}, dx : {<<XInt(1), XInt(2), Q(1, 2)>>},
     dt : {One, Q(1, 2)},
     xyzmin : {<<Zero, Zero, Zero>>, <<XInt(-1), XInt(1), Q(3, 2)>>}]
\* Particles: positions, and momenta on which the square root is exact
\* (gaminv is 1, 1/2, 1/3 or 4/5).
CoordParticles ==
    [pos : {<<XInt(3), Q(5, 2), Q(7, 4)>>, <<Q(1, 3), XInt(2), Q(9, 2)>>},
     u : {<<Zero, Zero, Zero>>, <<XInt(2), XInt(2), XInt(2)>>,
          <<XInt(-2), XInt(2), XInt(-2)>>, <<XInt(4), XInt(-4), Zero>>,
          <<Zero, XInt(4), XInt(4)>>, <<XInt(-4), Zero, XInt(4)>>,
          <<Q(3, 2), Zero, Zero>>, <<Zero, Zero, Q(-3, 2)>>}]

\* gaminv of doDepositionShapeN.
DirectGaminv(p) ==
    XDiv(One, XSqrt(XAdd(XAdd(XAdd(One,
                                   XMul(XMul(p.u[1], p.u[1]), clightsq)),
                              XMul(XMul(p.u[2], p.u[2]), clightsq)),
                         XMul(XMul(p.u[3], p.u[3]), clightsq))))
\* gaminv of doEsirkepovDepositionShapeN.
EsirkepovGaminv(p) ==
    XDiv(One, XSqrt(XAdd(XAdd(XAdd(One,
                                   XMul(XMul(p.u[1], p.u[1]), clightsq)),
                              XMul(XMul(p.u[2], p.u[2]), clightsq)),
                         XMul(XMul(p.u[3], p.u[3]), clightsq))))

\* dxi, dyi, dzi = 1/dx[0], 1/dx[1], 1/dx[2].
dxi(c, a) == XDiv(One, c.dx[a])
\* The push back by a whole step: dt*dxi.
dts2dx_NoHalf(c, a) == XMul(c.dt, dxi(c, a))
\* dts2dx, dts2dy, dts2dz = 0.5*dt*dxi (dyi, dzi).
dts2dx(c, a) == XMul(XMul(Half, c.dt), dxi(c, a))
\* dtsdx0, dtsdy0, dtsdz0 = dt*dxi (dyi, dzi).
dtsdx0(c, a) == XMul(c.dt, dxi(c, a))

\* doDepositionShapeN: gaminv; vx, vy, vz = u*gaminv; xmid, ymid, zmid =
\* (xp - xmin)*dxi - dts2dx*vx on the axes of the build.
DirectLocals(c, p) ==
    LET gaminv == DirectGaminv(p)
        v == [a \in 1..3 |-> XMul(p.u[a], gaminv)]
    IN  [gaminv |-> gaminv, v |-> v,
         mid |-> [a \in Axes(c) |->
                    XSub(XMul(XSub(p.pos[a], c.xyzmin[a]), dxi(c, a)),
                         XMul(dts2dx(c, a), v[a]))]]

\* doEsirkepovDepositionShapeN: gaminv; x_new = (xp - xmin)*dxi and x_old =
\* x_new - dtsdx0*uxp*gaminv on the axes of the build; in the 2-D build
\* vy = uyp*gaminv.
EsirkepovLocals(c, p) ==
    LET gaminv == EsirkepovGaminv(p)
        new == [a \in Axes(c) |->
                  XMul(XSub(p.pos[a], c.xyzmin[a]), dxi(c, a))]
    IN  [gaminv |-> gaminv, new |-> new,
         old |-> [a \in Axes(c) |->
                    XSub(new[a], XMul(XMul(dtsdx0(c, a), p.u[a]), gaminv))],
         vy |-> IF c.dim = 2 THEN <<XMul(p.u[2], gaminv)>> ELSE <<>>]

\* par holds the locals of the two routines for the particle, each once
\* its routine has run on it.
CoordInit ==
    /\ phase = "coord"
    /\ cfg \in CoordBuilds
    /\ part \in CoordParticles
    /\ par = [direct |-> <<>>, esirkepov |-> <<>>]
    /\ Jarr = Unused /\ pml = Unused /\ sol = Unused /\ rz = Unused
    /\ engine = Unused

\* doDepositionShapeN reaches its shape factors for the particle.
RunDirect ==
    /\ phase = "coord"
    /\ par.direct = <<>>
    /\ par' = [par EXCEPT !.direct = <<DirectLocals(cfg, part)>>]
    /\ UNCHANGED <<cfg, Jarr, part, phase, pml, sol, rz, engine>>

\* doEsirkepovDepositionShapeN reaches its shape factors for the particle.
RunEsirkepov ==
    /\ phase = "coord"
    /\ par.esirkepov = <<>>
    /\ par' = [par EXCEPT !.esirkepov = <<EsirkepovLocals(cfg, part)>>]
    /\ UNCHANGED <<cfg, Jarr, part, phase, pml, sol, rz, engine>>

\* The next particle of the container.
CoordNextParticle ==
    /\ phase = "coord"
    /\ par.direct # <<>> /\ par.esirkepov # <<>>
    /\ part' \in CoordParticles
    /\ par' = [direct |-> <<>>, esirkepov |-> <<>>]
    /\ UNCHANGED <<cfg, Jarr, phase, pml, sol, rz, engine>>

CoordNext == RunDirect \/ RunEsirkepov \/ CoordNextParticle
SpecCoord == CoordInit /\ [][CoordNext]_vars


\* =================================================================
\* Claims
\* =================================================================

\* The shape weight of a particle at coordinate n/den on grid index g.
ShapeAt(order, n, den, g) ==
    LET sf == compute_shape_factor(order, n, den)
    IN  IF g - sf.j \in 0..order THEN sf.s[g - sf.j] ELSE 0

\* The shape weights of the particle on every grid index of axis a, for the
\* particle displaced back by back*d (0: new position, 1: old position).
GridWeights(c, p, a, back) ==
    [g \in 0..NG |-> ShapeAt(c.order, p.x[a] - back * p.d[a], Res(c), g)]

\* The discrete continuity equation at cell (i, j, k) of the arrays J, given
\* the per-axis weights wn (new position) and wo (old position) of the grid
\* axes: rho is wq times the product of the per-axis weights at the cell,
\* over the shape denominators and the cell volume.
ContinuityAt(c, p, J, wn, wo, i, j, k) ==
    LET ddx == J.x[Idx(i, j, k)] - J.x[Idx(i - 1, j, k)]
        dd2 == IF c.dim = 3 THEN J.y[Idx(i, j, k)] - J.y[Idx(i, j - 1, k)]
               ELSE J.z[Idx(i, j, k)] - J.z[Idx(i, j - 1, k)]
        dd3 == IF c.dim = 3 THEN J.z[Idx(i, j, k)] - J.z[Idx(i, j, k - 1)]
               ELSE 0
        a2 == IF c.dim = 3 THEN 2 ELSE 3
        rho_new == ChargeWeight(c, p) * wn[1][i] * wn[2][j]
                     * (IF c.dim = 3 THEN wn[3][k] ELSE 1)
        rho_old == ChargeWeight(c, p) * wo[1][i] * wo[2][j]
                     * (IF c.dim = 3 THEN wo[3][k] ELSE 1)
        unit == IF c.dim = 3 THEN 6 ELSE 6 * Res(c)
    IN  /\ ddx % c.dx[1] = 0
        /\ dd2 % c.dx[a2] = 0
        /\ dd3 % c.dx[3] = 0
        /\ (ddx \div c.dx[1]) + (dd2 \div c.dx[a2]) + (dd3 \div c.dx[3])
             = 0 - unit * (rho_new - rho_old)

\* The axis of the build behind each array index: (x, y, z) or (x, z).
GridAxis(c, n) == IF c.dim = 3 THEN n ELSE IF n = 1 THEN 1 ELSE 3

\* C1: charge conservation.  After doEsirkepovDepositionShapeN has deposited
\* one particle into zeroed arrays (orders 0..3, 3-D and 2-D XZ), at every
\* grid cell (Jx(i)-Jx(i-1))/dx + (Jy(j)-Jy(j-1))/dy + (Jz(k)-Jz(k-1))/dz
\* (no y term in 2-D) equals -(rho_new - rho_old)/dt, rho being wq times the
\* product of the per-axis shape weights over the cell volume.
C1_ChargeConservation ==
    (phase = "deposited" /\ cfg.algo = "esirkepov") =>
        LET wn == [n \in 1..cfg.dim |->
                     GridWeights(cfg, part, GridAxis(cfg, n), 0)]
            wo == [n \in 1..cfg.dim |->
                     GridWeights(cfg, part, GridAxis(cfg, n), 1)]
        IN  \A i \in 1..NG, j \in 1..NG :
              \A k \in (IF cfg.dim = 3 THEN 1..NG ELSE {0}) :
                 ContinuityAt(cfg, part, Jarr, wn, wo, i, j, k)

\* A 3-D order-3 particle that changes cell on every axis has deposited a
\* nonzero current.
C1_Witness ==
    /\ phase = "deposited"
    /\ cfg.algo = "esirkepov"
    /\ cfg.dim = 3
    /\ cfg.order = 3
    /\ \A a \in 1..3 : EsirkepovAxis(cfg, part, a).i_old
                          # EsirkepovAxis(cfg, part, a).i_new
    /\ \E n \in DOMAIN Jarr.x : Jarr.x[n] # 0

\* ------------------------------------------------------------------ C2
RECURSIVE SumAdds(_, _, _, _)
\* What the first n adds of a thread contribute to cell idx of component
\* comp.
SumAdds(adds, n, comp, idx) ==
    IF n = 0 THEN 0
    ELSE (IF adds[n].comp = comp /\ adds[n].idx = idx THEN adds[n].val ELSE 0)
           + SumAdds(adds, n - 1, comp, idx)

RECURSIVE SumThreads(_, _, _)
SumThreads(ip, comp, idx) ==
    IF ip = 0 THEN 0
    ELSE SumAdds(par.adds[ip], par.pc[ip], comp, idx)
           + SumThreads(ip - 1, comp, idx)

Reverse(seq) == [n \in 1..Len(seq) |-> seq[Len(seq) + 1 - n]]

SerialDeposit(c, J, batch) ==
    IF c.algo = "direct" THEN doDepositionShapeN(c, J, batch)
    ELSE doEsirkepovDepositionShapeN(c, J, batch)

\* C2: no update is lost.  In every interleaving of the threads of a
\* deposition call, each cell of Jx, Jy, Jz holds its value before the call
\* plus the contributions made so far; after all particles finish it holds
\* the value before the call plus every contribution, which is what the
\* particles processed one after another, in either order, leave.
C2_NoLostUpdate ==
    (phase \in {"par_running", "par_done"}) =>
        /\ \A comp \in {"x", "y", "z"} : \A n \in DOMAIN Jarr[comp] :
              Jarr[comp][n]
                = par.Jstart[comp][n] + SumThreads(NThreads, comp, n)
        /\ phase = "par_done" =>
              /\ \A ip \in 1..NThreads : par.pc[ip] = Len(par.adds[ip])
              /\ Jarr = SerialDeposit(cfg, par.Jstart, par.batch)
              /\ Jarr = SerialDeposit(cfg, par.Jstart, Reverse(par.batch))

\* Two different particles have finished, both having added a nonzero
\* amount to one cell that was not zero before the call.
C2_Witness ==
    /\ phase = "par_done"
    /\ par.batch[1] # par.batch[2]
    /\ \E n1 \in DOMAIN par.adds[1], n2 \in DOMAIN par.adds[2] :
         /\ par.adds[1][n1].comp = par.adds[2][n2].comp
         /\ par.adds[1][n1].idx = par.adds[2][n2].idx
         /\ par.adds[1][n1].val # 0
         /\ par.adds[2][n2].val # 0
         /\ par.Jstart[par.adds[1][n1].comp][par.adds[1][n1].idx] # 0

\* ------------------------------------------------------------------ C3
\* a + b as a real number, not rounded.
ExactSum(a, b) == Q(a.n * b.d + b.n * a.d, a.d * b.d)

\* The pairs of damping coefficients the three 3-D push kernels read at a
\* cell.
PushCoefs(P, cell) ==
    {<<P.sigj.y[cell[2] - P.lo[2]], P.sigj.z[cell[3] - P.lo[3]]>>,
     <<P.sigj.x[cell[1] - P.lo[1]], P.sigj.z[cell[3] - P.lo[3]]>>,
     <<P.sigj.x[cell[1] - P.lo[1]], P.sigj.y[cell[2] - P.lo[2]]>>}

IsPush(kernel) == kernel \in {"push_ex", "push_ey", "push_ez"}

\* C3 as stated: in the 3-D build the two weights of a push sum to exactly
\* 1 (here even in the rounded sum of the code's own arithmetic), and are
\* both 0.5 when both damping coefficients are zero.
C3_SumExactlyOne ==
    (phase = "pml" /\ pml.dim = 3 /\ IsPush(pml.last.kernel)) =>
        /\ RAdd(pml.last.alpha[1], pml.last.alpha[2]) = One
        /\ (REqZero(pml.last.sig[1]) /\ REqZero(pml.last.sig[2])) =>
              (pml.last.alpha[1] = Half /\ pml.last.alpha[2] = Half)

\* C3, amended: in the 3-D build the two weights of a push are the rounded
\* quotients s1/(s1+s2) and s2/(s1+s2): finite, not negative, and their sum
\* differs from 1 by at most 3 units of 2^-MantBits (it is 1 only up to
\* rounding); they are both exactly 0.5 when both damping coefficients are
\* zero.  The same holds of the weights of every cell of the box.
C3_AlphaSplit ==
    (phase = "pml" /\ pml.dim = 3) =>
        LET Good(sig, al) ==
              LET sum == ExactSum(al[1], al[2])
              IN  /\ IsFinite(al[1]) /\ IsFinite(al[2])
                  /\ al[1].n >= 0 /\ al[2].n >= 0
                  /\ Pow2(MantBits) * Abs(sum.n - sum.d) <= 3 * sum.d
                  /\ (REqZero(sig[1]) /\ REqZero(sig[2])) =>
                        (al[1] = Half /\ al[2] = Half)
        IN  /\ IsPush(pml.last.kernel) =>
                 /\ pml.last.sig \in PushCoefs(pml, pml.last.cell)
                 /\ Good(pml.last.sig, pml.last.alpha)
            /\ \A cell \in PMLCellSet(3) : \A sig \in PushCoefs(pml, cell) :
                 Good(sig, PmlAlpha(sig[1], sig[2]))

\* A 3-D push has run at a cell inside the layer on both axes, with two
\* different nonzero coefficients and weights that are not 0.5.
C3_Witness ==
    /\ phase = "pml"
    /\ pml.dim = 3
    /\ IsPush(pml.last.kernel)
    /\ RGtZero(pml.last.sig[1])
    /\ RGtZero(pml.last.sig[2])
    /\ pml.last.sig[1] # pml.last.sig[2]
    /\ pml.last.alpha[1] # Half

\* ------------------------------------------------------------------ C4
RECURSIVE SumFn(_, _, _)
\* f[lo] + ... + f[hi].
SumFn(f, lo, hi) == IF hi < lo THEN 0 ELSE f[hi] + SumFn(f, lo, hi - 1)

\* C4: shape-factor partition of unity.  For every order 0..3 and every
\* particle coordinate, compute_shape_factor gives a leftmost index and exactly
\* order+1 weights whose sum is 1 (the shape denominator); the window of the
\* old position holds the weights of the old position moved by the
\* difference of the leftmost indices, zero elsewhere, and sums to 1 too.
C4_PartitionOfUnity ==
    (phase = "deposited") =>
        IF cfg.algo = "direct"
        THEN \A comp \in {"x", "y", "z"} : \A a \in Axes(cfg) :
               LET sf == DirectShape(cfg, part, comp, a)
               IN  /\ DOMAIN sf.s = 0..cfg.order
                   /\ SumFn(sf.s, 0, cfg.order) = ShapeDen(cfg.order, Res(cfg))
        ELSE \A a \in Axes(cfg) :
               LET ax == EsirkepovAxis(cfg, part, a)
                   new == compute_shape_factor(cfg.order, part.x[a], Res(cfg))
                   old == compute_shape_factor(cfg.order, part.x[a] - part.d[a],
                                               Res(cfg))
                   sh == old.j - (new.j - 1)
               IN  /\ DOMAIN new.s = 0..cfg.order
                   /\ DOMAIN old.s = 0..cfg.order
                   /\ SumFn(new.s, 0, cfg.order) = ShapeDen(cfg.order, Res(cfg))
                   /\ DOMAIN ax.s_new = 0..(cfg.order + 2)
                   /\ DOMAIN ax.s_old = 0..(cfg.order + 2)
                   /\ sh \in 0..2
                   /\ \A i \in 0..(cfg.order + 2) :
                        /\ ax.s_new[i] = IF i - 1 \in 0..cfg.order
                                         THEN new.s[i - 1] ELSE 0
                        /\ ax.s_old[i] = IF i - sh \in 0..cfg.order
                                         THEN old.s[i - sh] ELSE 0
                   /\ SumFn(ax.s_new, 0, cfg.order + 2)
                        = ShapeDen(cfg.order, Res(cfg))
                   /\ SumFn(ax.s_old, 0, cfg.order + 2)
                        = ShapeDen(cfg.order, Res(cfg))

\* An order-3 particle off the grid nodes whose old position lies in the
\* cell to the left along x: the old weights sit one entry lower.
C4_Witness ==
    /\ phase = "deposited"
    /\ cfg.algo = "esirkepov"
    /\ cfg.order = 3
    /\ EsirkepovAxis(cfg, part, 1).i_old = EsirkepovAxis(cfg, part, 1).i_new - 1
    /\ EsirkepovAxis(cfg, part, 1).s_old[0] > 0
    /\ EsirkepovAxis(cfg, part, 1).s_old[4] = 0
    /\ part.x[1] % Res(cfg) # 0

\* ------------------------------------------------------------------ C5
\* The coordinate at which a component's shape factor is evaluated along
\* an axis: the mid-step position, half a cell lower for a cell-centred
\* axis.
StagCoord(c, p, comp, a) ==
    MidCoord(p, a) - (IF JType(c, comp, a) = "CELL" THEN Res(c) \div 2 ELSE 0)

\* The linear (order-1) weight of a particle at n/den on grid index g.
Hat(n, den, g) ==
    LET dist == IF n >= g * den THEN n - g * den ELSE g * den - n
    IN  IF dist < den THEN den - dist ELSE 0

AxisOf(comp) == CASE comp = "x" -> 1 [] comp = "y" -> 2 [] comp = "z" -> 3
ZRange(c) == IF c.dim = 3 THEN 0..NG ELSE {0}

\* The product of the per-axis weights of component comp at cell (i, j, k).
\* (linear: by the order-1 formula Hat instead of the shape factor.)
AxisWeight(c, p, comp, a, g, linear) ==
    IF linear THEN Hat(StagCoord(c, p, comp, a), Res(c), g)
    ELSE ShapeAt(c.order, StagCoord(c, p, comp, a), Res(c), g)
WeightAt(c, p, comp, i, j, k, linear) ==
    IF c.dim = 3
    THEN AxisWeight(c, p, comp, 1, i, linear) * AxisWeight(c, p, comp, 2, j, linear)
           * AxisWeight(c, p, comp, 3, k, linear)
    ELSE AxisWeight(c, p, comp, 1, i, linear) * AxisWeight(c, p, comp, 3, j, linear)
PowDim(c, v) == IF c.dim = 3 THEN v * v * v ELSE v * v

\* C5: direct deposition footprint.  One particle deposited by
\* doDepositionShapeN with order N adds to exactly (N+1)^d cells of each
\* component, once each; the amount in a cell is the product of the per-axis
\* shape weights (the bilinear products for order 1) times the component's
\* charge-weighted current; and the amounts of a component sum to q*w*v over
\* the cell volume (times the ionization level when given).
C5_DirectFootprint ==
    (phase = "deposited" /\ cfg.algo = "direct") =>
        LET adds == DirectAdds(cfg, part)
        IN  \A comp \in {"x", "y", "z"} :
              LET mine == {n \in DOMAIN adds : adds[n].comp = comp}
                  qwv == ChargeWeight(cfg, part) * Velocity(cfg, part, AxisOf(comp))
              IN  /\ Cardinality(mine) = PowDim(cfg, cfg.order + 1)
                  /\ Cardinality({adds[n].idx : n \in mine})
                       = PowDim(cfg, cfg.order + 1)
                  /\ \A i \in 0..NG, j \in 0..NG : \A k \in ZRange(cfg) :
                       /\ Jarr[comp][Idx(i, j, k)]
                            = WeightAt(cfg, part, comp, i, j, k, FALSE) * qwv
                       /\ cfg.order = 1 =>
                            Jarr[comp][Idx(i, j, k)]
                              = WeightAt(cfg, part, comp, i, j, k, TRUE) * qwv
                  /\ SumFn(Jarr[comp], 0, NCells(cfg) - 1)
                       = PowDim(cfg, ShapeDen(cfg.order, Res(cfg))) * qwv

\* An order-1 particle of the 2-D build strictly inside a cell: four cells
\* of Jy hold a nonzero amount.
C5_Witness ==
    /\ phase = "deposited"
    /\ cfg.algo = "direct"
    /\ cfg.dim = 2
    /\ cfg.order = 1
    /\ Cardinality({n \in DOMAIN Jarr.y : Jarr.y[n] # 0}) = 4

\* ------------------------------------------------------------------ C6
IsUniform(F) == \A a \in DOMAIN F, b \in DOMAIN F : F[a] = F[b]
AllUniform(V) == IsUniform(V.x) /\ IsUniform(V.y) /\ IsUniform(V.z)
AllZero(V) == \A comp \in {"x", "y", "z"} : \A c \in DOMAIN V[comp] :
                 REqZero(V[comp][c])

\* C6: static-field fixed point.  Starting from uniform E and B with J = 0
\* and no F, after any sequence of EvolveE and EvolveB calls with any dt
\* every cell of every component of E and B holds its initial value.
C6_StaticFixedPoint ==
    (phase = "solver" /\ AllUniform(sol.init.E) /\ AllUniform(sol.init.B)
       /\ AllZero(sol.J) /\ ~sol.has_F) =>
        (sol.E = sol.init.E /\ sol.B = sol.init.B)

\* Uniform nonzero fields and no current, after EvolveE and EvolveB have
\* both run, with two different time steps, in the 3-D build.
C6_Witness ==
    /\ phase = "solver"
    /\ sol.dim = 3
    /\ AllUniform(sol.init.E) /\ AllUniform(sol.init.B) /\ AllZero(sol.J)
    /\ Len(sol.hist) = MaxSolverCalls
    /\ \E a \in DOMAIN sol.hist, b \in DOMAIN sol.hist :
         /\ sol.hist[a].ev = "EvolveB" /\ sol.hist[b].ev = "EvolveE"
         /\ a < b /\ sol.hist[a].n # sol.hist[b].n
    /\ ~AllZero(sol.E) /\ ~AllZero(sol.B)

\* ------------------------------------------------------------------ C7
EventsAt(ev) == {n \in DOMAIN sol.hist : sol.hist[n].ev = ev}
RECURSIVE SumTo(_)
SumTo(n) == IF n = 0 THEN 0 ELSE n + SumTo(n - 1)

\* C7: step ordering.  Within a step EvolveE runs only after every species
\* has finished depositing (so the J it reads is the complete one) and
\* nothing deposits after it; EvolveB runs only after EvolveE, EvolveF only
\* after EvolveB; each stage runs at most once per step and a deposition
\* ends only after it began.
C7_StepOrdering ==
    phase = "stepping" =>
      /\ \A n \in EventsAt("EvolveE") :
           /\ \A sp \in 1..NSpecies :
                \E m \in 1..(n - 1) : sol.hist[m] = Event("deposit_end", sp)
           /\ \A m \in (n + 1)..Len(sol.hist) :
                sol.hist[m].ev \notin {"deposit_begin", "deposit_end"}
      /\ \A n \in EventsAt("EvolveB") :
           \E m \in 1..(n - 1) : sol.hist[m].ev = "EvolveE"
      /\ \A n \in EventsAt("EvolveF") :
           \E m \in 1..(n - 1) : sol.hist[m].ev = "EvolveB"
      /\ \A n \in EventsAt("deposit_end") :
           \E m \in 1..(n - 1) : sol.hist[m] = Event("deposit_begin", sol.hist[n].n)
      /\ \A ev \in {"EvolveE", "EvolveB", "EvolveF"} :
           Cardinality(EventsAt(ev)) <= 1
      /\ sol.stage # "deposit" =>
           sol.J = Vec(sol.dim, SumTo(NSpecies), SumTo(NSpecies),
                       SumTo(NSpecies), {}, 0)

\* The last step has run deposition (two species overlapping), EvolveE,
\* EvolveB and EvolveF.
C7_Witness ==
    /\ phase = "stepping"
    /\ sol.step = MaxSteps
    /\ sol.stage = "F"
    /\ \E a \in EventsAt("deposit_begin"), b \in EventsAt("deposit_end") :
         a < b /\ sol.hist[a].n # sol.hist[b].n
           /\ \E e \in EventsAt("deposit_end") :
                e > b /\ sol.hist[e].n = sol.hist[a].n

\* ------------------------------------------------------------------ C9
Converted == phase = "rz" /\ rz.algo # "none"
DefaultDirection(d) == d.costheta = One /\ d.sintheta = Zero /\ ~d.divided
QuotientDirection(d) ==
    d.costheta = RDiv(d.x, d.r) /\ d.sintheta = RDiv(d.y, d.r) /\ d.divided
\* A radius within a sixteenth of a cell of the axis.
NearZero(r) == IsFinite(r) /\ 16 * Abs(r.n) <= r.d

\* C9 as stated: every radius near zero gives the default direction
\* without a division, every other radius the direction (x/r, y/r).
C9_NearZeroDefaults ==
    Converted =>
      \A n \in DOMAIN rz.out.dirs :
        LET d == rz.out.dirs[n]
        IN  IF NearZero(d.r) THEN DefaultDirection(d) ELSE QuotientDirection(d)

\* C9: radius guard.  A radius that is not greater than zero gives the
\* direction (cos = 1, sin = 0) with no division by it; every radius
\* greater than zero, however small, gives (x/r, y/r); either way the
\* direction is finite, and so are the currents of direct deposition.
C9_RadiusGuard ==
    Converted =>
      /\ \A n \in DOMAIN rz.out.dirs :
           LET d == rz.out.dirs[n]
           IN  /\ IF RGtZero(d.r) THEN QuotientDirection(d)
                                  ELSE DefaultDirection(d)
               /\ IsFinite(d.costheta) /\ IsFinite(d.sintheta)
      /\ rz.algo = "direct" =>
           IsFinite(rz.out.wqx) /\ IsFinite(rz.out.wqy)
      /\ Len(rz.out.dirs) = IF rz.algo = "direct" THEN 1 ELSE 3

\* An Esirkepov conversion of a moving particle whose mid radius is zero
\* and whose new and old radii are not.
C9_Witness ==
    /\ Converted
    /\ rz.algo = "esirkepov"
    /\ RGtZero(rz.out.dirs[1].r) /\ rz.out.dirs[1].divided
    /\ REqZero(rz.out.dirs[2].r) /\ DefaultDirection(rz.out.dirs[2])
    /\ RGtZero(rz.out.dirs[3].r) /\ rz.out.dirs[3].costheta # rz.out.dirs[1].costheta

C11_DivideGuard ==
    (phase = "pml" /\ pml.dim = 3) =>
        LET Guarded(sig, al) ==
              /\ \A n \in DOMAIN PmlDivisors(sig[1], sig[2]) :
                    ~REqZero(PmlDivisors(sig[1], sig[2])[n])
              /\ ~IsNaN(al[1]) /\ ~IsNaN(al[2])
              /\ (REqZero(sig[1]) /\ REqZero(sig[2])) =>
                    /\ PmlDivisors(sig[1], sig[2]) = <<>>
                    /\ al = <<Half, Half>>
              /\ ~(REqZero(sig[1]) /\ REqZero(sig[2])) =>
                    /\ Len(PmlDivisors(sig[1], sig[2])) = 2
                    /\ al[1] = RDiv(sig[1], PmlDivisors(sig[1], sig[2])[1])
                    /\ al[2] = RDiv(sig[2], PmlDivisors(sig[1], sig[2])[2])
        IN  /\ IsPush(pml.last.kernel) => Guarded(pml.last.sig, pml.last.alpha)
            /\ \A cell \in PMLCellSet(3) : \A sig \in PushCoefs(pml, cell) :
                 Guarded(sig, PmlAlpha(sig[1], sig[2]))

\* A 3-D push has run at a cell outside the layer on both axes: both
\* coefficients are zero and the field was still pushed.
C11_Witness ==
    /\ phase = "pml"
    /\ pml.dim = 3
    /\ pml.last.kernel = "push_ez"
    /\ REqZero(pml.last.sig[1]) /\ REqZero(pml.last.sig[2])
    /\ pml.last.alpha = <<Half, Half>>
    /\ pml.E.z[pml.last.cell] # <<One, One>>

\* ----------------------------------------------------------------- C12
\* Real-number (unrounded) difference, product and magnitude.
ExactDiff(a, b) == Q(a.n * b.d - b.n * a.d, a.d * b.d)
ExactProd(a, b) == Q(a.n * b.n, a.d * b.d)
ExactAbs(a) == [n |-> Abs(a.n), d |-> a.d]
ExactLeq(a, b) == a.n * b.d <= b.n * a.d
KernelComp(kernel) ==
    CASE kernel \in {"push_ex", "damp_jx"} -> "x"
      [] kernel \in {"push_ey", "damp_jy"} -> "y"
      [] OTHER -> "z"
\* A push kernel has just run (a step of the box from pml to pml').
Pushed == phase = "pml" /\ pml'.calls = pml.calls + 1 /\ IsPush(pml'.last.kernel)
\* By how much the call lowered the sum of the two split components.
Lowered ==
    LET c == KernelComp(pml'.last.kernel)
        cell == pml'.last.cell
    IN  ExactDiff(ExactSum(pml.E[c][cell][1], pml.E[c][cell][2]),
                  ExactSum(pml'.E[c][cell][1], pml'.E[c][cell][2]))
PushTerm ==
    ExactProd(pml.mu_c2_dt, pml.j[KernelComp(pml'.last.kernel)][pml'.last.cell])

\* C12 as stated: one 3-D push lowers the sum of the two split components
\* by exactly mu_c2_dt times the current of the cell.
C12_ExactTotal ==
    [][(Pushed /\ pml.dim = 3) => Lowered = PushTerm]_vars

\* C12, amended: one 3-D push lowers the sum of the two split components
\* by mu_c2_dt times the current of the cell up to rounding, whichever
\* branch chose the weights: the error is at most 2^-MantBits times
\* (|E0'| + |E1'| + 5*|mu_c2_dt*j|); no other cell and no other component
\* changes.
C12_TotalUpdate ==
    [][(Pushed /\ pml.dim = 3) =>
         LET c == KernelComp(pml'.last.kernel)
             cell == pml'.last.cell
             err == ExactAbs(ExactDiff(Lowered, PushTerm))
             mag == ExactSum(ExactSum(ExactAbs(pml'.E[c][cell][1]),
                                      ExactAbs(pml'.E[c][cell][2])),
                             ExactProd(R(5), ExactAbs(PushTerm)))
         IN  /\ ExactLeq(ExactProd(R(Pow2(MantBits)), err), mag)
             /\ \A d \in {"x", "y", "z"} : \A other \in PMLCellSet(3) :
                   (d # c \/ other # cell) => pml'.E[d][other] = pml.E[d][other]
             /\ pml'.j = pml.j]_vars

\* A 3-D push with two different nonzero coefficients has lowered both
\* split components of Ex by different amounts.
C12_Witness ==
    /\ phase = "pml"
    /\ pml.dim = 3
    /\ pml.last.kernel = "push_ex"
    /\ RGtZero(pml.last.sig[1]) /\ RGtZero(pml.last.sig[2])
    /\ pml.E.x[pml.last.cell][1] # pml.E.x[pml.last.cell][2]
    /\ \A n \in 1..2 : ExactLeq(pml.E.x[pml.last.cell][n], One)
                          /\ pml.E.x[pml.last.cell][n] # One

\* ----------------------------------------------------------------- C13
\* C13 as stated: in the 2-D build every push subtracts the whole term
\* mu_c2_dt*j from exactly one split component and leaves the other as
\* it was.
C13_SingleWeight ==
    [][(Pushed /\ pml.dim = 2) =>
         LET c == KernelComp(pml'.last.kernel)
             cell == pml'.last.cell
             term == RMul(pml.mu_c2_dt, pml.j[c][cell])
         IN  \E n \in 1..2 :
               /\ pml'.E[c][cell][n] = RSub(pml.E[c][cell][n], term)
               /\ pml'.E[c][cell][3 - n] = pml.E[c][cell][3 - n]]_vars

\* C13, amended: in the 2-D build push_ex subtracts the whole term
\* mu_c2_dt*j from the second split component of Ex only and push_ez from
\* the first split component of Ez only; push_ey subtracts half of it,
\* 0.5*mu_c2_dt*j, from each of the two split components of Ey.  No other
\* cell or component changes.
C13_ReducedPush ==
    [][(Pushed /\ pml.dim = 2) =>
         LET k == pml'.last.kernel
             c == KernelComp(k)
             cell == pml'.last.cell
             old == pml.E[c][cell]
             term == RMul(pml.mu_c2_dt, pml.j[c][cell])
             half == RMul(RMul(Half, pml.mu_c2_dt), pml.j[c][cell])
         IN  /\ pml'.E[c][cell] =
                   CASE k = "push_ex" -> <<old[1], RSub(old[2], term)>>
                     [] k = "push_ez" -> <<RSub(old[1], term), old[2]>>
                     [] OTHER -> <<RSub(old[1], half), RSub(old[2], half)>>
             /\ \A d \in {"x", "y", "z"} : \A other \in PMLCellSet(2) :
                   (d # c \/ other # cell) => pml'.E[d][other] = pml.E[d][other]
             /\ pml'.j = pml.j]_vars

\* A 2-D push_ey has lowered both split components of Ey, and a 2-D
\* push_ex only the second split component of Ex.
C13_Witness ==
    /\ phase = "pml"
    /\ pml.dim = 2
    /\ pml.last.kernel = "push_ey"
    /\ pml.E.y[pml.last.cell][1] # One
    /\ pml.E.y[pml.last.cell][2] # One
    /\ \E cell \in PMLCellSet(2) :
         pml.E.x[cell][1] = One /\ pml.E.x[cell][2] # One

\* ----------------------------------------------------------------- C14
AxisName == <<"x", "y", "z">>
\* The damping coefficient of axis a for current component comp at offset
\* off: self-damping on the component's own axis, cross-damping on the
\* others (no value outside the profile).
DampCoef(P, comp, a, off) ==
    LET prof == IF AxisName[a] = comp THEN P.sigsj[AxisName[a]]
                                      ELSE P.sigj[AxisName[a]]
    IN  IF off \in DOMAIN prof THEN prof[off] ELSE NaN
\* A damping kernel has just run (a step of the box from pml to pml').
Damped ==
    /\ phase = "pml"
    /\ pml'.calls = pml.calls + 1
    /\ pml'.last.kernel \in {"damp_jx", "damp_jy", "damp_jz"}
\* The old current times the coefficients of the three axes in turn.
ThreeAxisProduct(P, comp, cell) ==
    RMul(RMul(RMul(P.j[comp][cell],
                   DampCoef(P, comp, 1, cell[1] - P.lo[1])),
              DampCoef(P, comp, 2, cell[2] - P.lo[2])),
         DampCoef(P, comp, 3, cell[3] - P.lo[3]))

\* C14 as stated: every damping call replaces the current of the cell by
\* its old value times the coefficients at (j-xlo, k-ylo, l-zlo), self on
\* the own axis and cross on the other two.
C14_DampAllAxes ==
    [][Damped =>
         pml'.j[KernelComp(pml'.last.kernel)][pml'.last.cell]
           = ThreeAxisProduct(pml, KernelComp(pml'.last.kernel),
                              pml'.last.cell)]_vars

\* C14, amended: in the 3-D build every damping call replaces the current
\* of the cell by its old value times the coefficients at (j-xlo, k-ylo,
\* l-zlo), self on the own axis and cross on the other two; in the 2-D
\* build by its old value times the x coefficient at j-xlo and the z
\* coefficient at k-zlo only (so damp_jy uses no self-damping).  Nothing
\* else changes.
C14_Damping ==
    [][Damped =>
         LET comp == KernelComp(pml'.last.kernel)
             cell == pml'.last.cell
         IN  /\ pml'.j[comp][cell] =
                   IF pml.dim = 3 THEN ThreeAxisProduct(pml, comp, cell)
                   ELSE RMul(RMul(pml.j[comp][cell],
                                  DampCoef(pml, comp, 1, cell[1] - pml.lo[1])),
                             DampCoef(pml, comp, 3, cell[2] - pml.lo[3]))
             /\ \A d \in {"x", "y", "z"} : \A other \in PMLCellSet(pml.dim) :
                   (d # comp \/ other # cell) => pml'.j[d][other] = pml.j[d][other]
             /\ pml'.E = pml.E]_vars

\* A 3-D damp_jy has run at a cell inside the layer on all three axes,
\* where the self and cross coefficients differ: the current changed and
\* is not zero.
C14_Witness ==
    /\ phase = "pml"
    /\ pml.dim = 3
    /\ pml.last.kernel = "damp_jy"
    /\ \A a \in 1..3 : pml.last.cell[a] - pml.lo[a] >= 1
    /\ pml.sigj.x[1] # pml.sigsj.x[1]
    /\ RGtZero(pml.j.y[pml.last.cell])
    /\ pml.j.y[pml.last.cell] # R(3)

\* ------------------------------------------------------------------ C15
RECURSIVE CosM(_, _)
RECURSIVE SinM(_, _)
\* cos(m*theta) and sin(m*theta) from cos(theta), sin(theta) by the
\* multiple-angle recurrence f(m) = 2 cos(theta) f(m-1) - f(m-2).
CosM(d, m) ==
    IF m = 0 THEN One
    ELSE IF m = 1 THEN d.re
    ELSE XSub(XMul(XMul(XInt(2), d.re), CosM(d, m - 1)), CosM(d, m - 2))
SinM(d, m) ==
    IF m = 0 THEN Zero
    ELSE IF m = 1 THEN d.im
    ELSE XSub(XMul(XMul(XInt(2), d.re), SinM(d, m - 1)), SinM(d, m - 2))

\* The adds of the last particle into array component n.
AddsInto(n) == {i \in DOMAIN rz.adds : rz.adds[i].idx[3] = n}
\* The particle whose adds rz.adds holds: the one being deposited, or the
\* one deposited last.
LastRZParticle == rz.batch[IF rz.running THEN rz.ip + 1 ELSE rz.ip]

\* C15: in cylindrical direct deposition, for every cell of the support and
\* every mode m with 1 <= m < n_rz_azimuthal_modes, component 2m-1 receives
\* 2 cos(m theta) times and component 2m receives 2 sin(m theta) times the
\* amount added to component 0 of the same cell (exact arithmetic, theta
\* the mid-step angle, 0 on the axis); no component of index
\* >= 2 n_rz_azimuthal_modes - 1 is written, and with one mode only
\* component 0 is.
C15_ModeWeighting ==
    (phase = "rzdep" /\ rz.adds # <<>>) =>
        LET d == RZMidDirection(LastRZParticle)
            two == XInt(2)
        IN  /\ ~rz.running =>
                \A i \in AddsInto(0) : \A m \in 1..(rz.c.nmodes - 1) :
                  \A n \in {2 * m - 1, 2 * m} :
                    \E r \in AddsInto(n) :
                        /\ rz.adds[r].comp = rz.adds[i].comp
                        /\ rz.adds[r].idx[1] = rz.adds[i].idx[1]
                        /\ rz.adds[r].idx[2] = rz.adds[i].idx[2]
            /\ \A r \in DOMAIN rz.adds :
                  LET op == rz.adds[r]
                      n == op.idx[3]
                      m == (n + 1) \div 2
                  IN  /\ n <= 2 * rz.c.nmodes - 2
                      /\ n >= 1 =>
                            \E i \in AddsInto(0) :
                              /\ rz.adds[i].comp = op.comp
                              /\ rz.adds[i].idx[1] = op.idx[1]
                              /\ rz.adds[i].idx[2] = op.idx[2]
                              /\ op.val =
                                    XMul(XMul(two, IF n % 2 = 1 THEN CosM(d, m)
                                                   ELSE SinM(d, m)),
                                         rz.adds[i].val)
            /\ \A comp \in {"x", "y", "z"} : \A i \in RZIdx :
                  i[3] >= 2 * rz.c.nmodes - 1 => rz.J[comp][i] = Zero

\* A particle off the axis, moving across the radius, has deposited into
\* the third mode with a weight that is neither 0 nor the mode-0 amount.
C15_Witness ==
    /\ phase = "rzdep" /\ rz.ip >= 1 /\ ~rz.running /\ rz.c.nmodes = MaxModes
    /\ RZMidDirection(LastRZParticle).rpmid.n > 0
    /\ \E r \in AddsInto(2 * MaxModes - 3), i \in AddsInto(0) :
          /\ rz.adds[r].comp = "y" /\ rz.adds[i].comp = "y"
          /\ rz.adds[r].idx[1] = rz.adds[i].idx[1]
          /\ rz.adds[r].idx[2] = rz.adds[i].idx[2]
          /\ rz.adds[r].val.n # 0
          /\ rz.adds[r].val # rz.adds[i].val
          /\ rz.adds[r].val # XMul(XInt(2), rz.adds[i].val)

\* ------------------------------------------------------------------ C16
\* The whole batch is deposited, and it is k rotated copies of a particle.
RotatedBatchDone ==
    /\ phase = "rzdep"
    /\ rz.ip = Len(rz.batch) /\ ~rz.running
    /\ rz.batch = RotatedCopies(rz.batch[1], Len(rz.batch))
RECURSIVE SumOfAdds(_, _)
\* The sum of the amounts of the adds ops[n], n in S.
SumOfAdds(ops, S) ==
    IF S = {} THEN Zero
    ELSE LET n == CHOOSE m \in S : TRUE
         IN  XAdd(ops[n].val, SumOfAdds(ops, S \ {n}))
\* What the deposition of the first particle alone leaves in zeroed arrays.
SingleDeposit ==
    LET loc == RZLocals(rz.c, rz.batch[1])
        ops == [n \in 1..RZAddCount(rz.c) |-> RZAddAt(rz.c, loc, n)]
    IN  [comp \in {"x", "y", "z"} |->
           [i \in RZIdx |->
              SumOfAdds(ops, {n \in DOMAIN ops :
                                ops[n].comp = comp /\ ops[n].idx = i})]]
\* Mode m sums to zero when m is not a multiple of k, and mode 0 holds k
\* times the deposit of one particle.
ModeSymmetry ==
    LET k == Len(rz.batch)
        single == SingleDeposit
    IN  \A comp \in {"x", "y", "z"} : \A i \in RZIdx :
          LET m == (i[3] + 1) \div 2
          IN  /\ (m >= 1 /\ m < rz.c.nmodes /\ m % k # 0) =>
                    rz.J[comp][i] = Zero
              /\ m = 0 => rz.J[comp][i] = XMul(XInt(k), single[comp][i])

\* C16 as stated: for every k-fold rotated configuration, the summed mode-m
\* amplitudes vanish when m is not a multiple of k and mode 0 receives k
\* times the single-particle deposit.
C16_AnyRadius == RotatedBatchDone => ModeSymmetry

\* C16: the same for particles whose mid-step position is off the axis
\* (exact arithmetic).  On the axis the guard gives every copy the same
\* direction (1, 0), so the copies are not rotated images of each other.
C16_ModeSymmetry ==
    (RotatedBatchDone /\ RZMidDirection(rz.batch[1]).rpmid.n > 0) =>
        ModeSymmetry

\* Four copies off the axis with an azimuthal current: the first two modes
\* have cancelled although each copy deposited into them.
C16_Witness ==
    /\ RotatedBatchDone /\ Len(rz.batch) = 4 /\ rz.c.nmodes = MaxModes
    /\ RZMidDirection(rz.batch[1]).rpmid.n > 0
    /\ \E r \in AddsInto(1) : rz.adds[r].comp = "y" /\ rz.adds[r].val.n # 0
    /\ \E i \in RZIdx : i[3] = 0 /\ rz.J["y"][i].n # 0

\* ------------------------------------------------------------------ C17
\* Each coefficient array has one entry, the inverse of the cell size of
\* its own axis.
CoefsOfOwnAxis(S) ==
    \A a \in 1..3 :
      LET coefs == S.fds.m_stencil_coefs[AxisName[a]]
      IN  /\ Len(coefs) = 1
          /\ coefs[1] = RDiv(One, S.cell_size[a])

IsCall(ev) ==
    /\ phase = "stepping" /\ phase' = "stepping"
    /\ Len(sol'.hist) = Len(sol.hist) + 1
    /\ sol'.hist[Len(sol'.hist)].ev = ev
\* Everything but the fields of the set out is as before the step.
FrameBut(out) ==
    \A f \in {"E", "B", "J", "F", "rho", "fds", "cell_size"} \ out :
      sol'[f] = sol[f]

\* C18: EvolveB changes only B, EvolveE changes only E and EvolveF changes
\* only F: the fields each reads, the stencil coefficients and every other
\* field are as before the call.
C18_FieldFrame ==
    [][/\ IsCall("EvolveB") => FrameBut({"B"})
       /\ IsCall("EvolveE") => FrameBut({"E"})
       /\ IsCall("EvolveF") => FrameBut({"F"})]_vars

\* All three updates have run on a grid with deposited current, and each
\* has changed its own field.
C18_Witness ==
    /\ phase = "stepping" /\ sol.stage = "F"
    /\ sol.cell_size = <<R(1), R(2), R(4)>>
    /\ sol.E # sol.init.E /\ sol.B # sol.init.B
    /\ sol.F # FieldOf(sol.dim, 0, {}, 0)
    /\ sol.J # Vec(sol.dim, 0, 0, 0, {}, 0)

\* ------------------------------------------------------------------ C19
\* Grid index g is within the support of the order-N shape centred on the
\* coordinate x/den: no farther than (N+1)/2 cells.
InSupport(order, x, den, g) ==
    LET dist == IF x >= g * den THEN x - g * den ELSE g * den - x
    IN  2 * dist <= (order + 1) * den

\* Cell (i, j, k) of component comp is inside the shape-kernel window of
\* particle p: on every axis within the support of the shape at the
\* mid-step coordinate of the component's staggering (direct), or of the
\* shape at the new or at the old position (Esirkepov).
InWindow(c, p, comp, i, j, k) ==
    LET g == <<i, j, k>>
        on(n) ==
          LET a == GridAxis(c, n)
          IN  IF c.algo = "direct"
              THEN InSupport(c.order, StagCoord(c, p, comp, a), Res(c), g[n])
              ELSE \/ InSupport(c.order, p.x[a], Res(c), g[n])
                   \/ InSupport(c.order, p.x[a] - p.d[a], Res(c), g[n])
    IN  on(1) /\ on(2) /\ (c.dim = 3 => on(3))

\* The step is a deposition call; its batch.
IsDepositionCall == phase = "batch" /\ Len(part'.calls) = Len(part.calls) + 1
CalledBatch == BatchOf(part.store, part'.calls[Len(part'.calls)])

\* C19: frame of deposition.  A call of doDepositionShapeN or
\* doEsirkepovDepositionShapeN leaves the particle container and its other
\* arguments as they were; every cell of Jx, Jy, Jz outside the
\* shape-kernel windows of all the deposited particles keeps its value; and
\* a call with np_to_depose = 0 leaves the arrays unchanged.
C19_DepositionFrame ==
    [][IsDepositionCall =>
         /\ part'.store = part.store /\ part'.J0 = part.J0 /\ cfg' = cfg
         /\ \A comp \in {"x", "y", "z"} :
              \A i \in 0..NG, j \in 0..NG : \A k \in ZRange(cfg) :
                (\A n \in DOMAIN CalledBatch :
                    ~InWindow(cfg, CalledBatch[n], comp, i, j, k))
                  => Jarr'[comp][Idx(i, j, k)] = Jarr[comp][Idx(i, j, k)]
         /\ CalledBatch = <<>> => Jarr' = Jarr]_vars

\* After an empty call on arrays that hold current, a call on the whole
\* container has changed cells inside the windows and has kept a nonzero
\* cell outside them.
C19_Witness ==
    /\ phase = "batch"
    /\ part.calls = <<<<1, 0>>, <<1, MaxBatch>>>>
    /\ part.J0 # ZeroJ(cfg)
    /\ Jarr # part.J0
    /\ \E comp \in {"x", "y", "z"} : \E i \in 0..NG, j \in 0..NG :
          /\ \A n \in DOMAIN part.store :
                ~InWindow(cfg, part.store[n], comp, i, j, 0)
          /\ Jarr[comp][Idx(i, j, 0)] # 0

\* ------------------------------------------------------------------ C20
RECURSIVE Concatenation(_, _)
\* The batches of the calls put one after the other.
Concatenation(store, calls) ==
    IF calls = <<>> THEN <<>>
    ELSE BatchOf(store, Head(calls)) \o Concatenation(store, Tail(calls))
RECURSIVE CallsInOrder(_, _, _, _)
\* The arrays after one call per entry of calls, in the order of calls.
CallsInOrder(c, J, store, calls) ==
    IF calls = <<>> THEN J
    ELSE CallsInOrder(c, SerialDeposit(c, J, BatchOf(store, Head(calls))), store,
                      Tail(calls))

\* C20: deposition accumulates and keeps no state between calls.  The
\* arrays after the calls made so far (batch A, then batch B) are what the
\* same calls in the opposite order (B, then A) give from the same prior
\* content, and what one call on the concatenation of the batches gives
\* (exact arithmetic): they depend only on the prior content and the
\* batches.
C20_Accumulates ==
    phase = "batch" =>
        /\ Jarr = CallsInOrder(cfg, part.J0, part.store, Reverse(part.calls))
        /\ Jarr = SerialDeposit(cfg, part.J0, Concatenation(part.store, part.calls))

\* Two calls on two different particles with overlapping footprints, into
\* arrays that already held current.
C20_Witness ==
    /\ phase = "batch"
    /\ part.calls = <<<<1, 1>>, <<2, 2>>>>
    /\ part.store[1] # part.store[2]
    /\ part.J0 # ZeroJ(cfg)
    /\ Jarr # SerialDeposit(cfg, part.J0, <<part.store[1]>>)
    /\ Jarr # SerialDeposit(cfg, part.J0, <<part.store[2]>>)

\* ------------------------------------------------------------------ C8
\* The current one particle deposits into zeroed arrays.
DepositOne(c, p) ==
    IF c.algo = "direct" THEN doDepositionShapeN(c, ZeroJ(c), <<p>>)
    ELSE doEsirkepovDepositionShapeN(c, ZeroJ(c), <<p>>)

\* C8: ionization multiplier.  In both routines the charge weight is q*w
\* when ion_lev is null and q*w*ion_lev[ip] otherwise: depositing with
\* ion_lev null gives the current of an ion_lev array of all ones, a level
\* l scales every cell by l, and a particle of level 0 adds zero to every
\* cell.
C8_IonizationMultiplier ==
    (phase = "deposited") =>
        LET Jnull == DepositOne([cfg EXCEPT !.do_ionization = FALSE], part)
            Jones == DepositOne([cfg EXCEPT !.do_ionization = TRUE],
                                [part EXCEPT !.ion = 1])
        IN  /\ Jnull = Jones
            /\ ~cfg.do_ionization => ChargeWeight(cfg, part) = cfg.q * part.w
            /\ cfg.do_ionization =>
                 /\ ChargeWeight(cfg, part) = cfg.q * part.w * part.ion
                 /\ \A comp \in {"x", "y", "z"} : \A n \in DOMAIN Jarr[comp] :
                      Jarr[comp][n] = part.ion * Jnull[comp][n]
                 /\ part.ion = 0 => Jarr = ZeroJ(cfg)

\* A particle of ionization level 0 has been deposited by the Esirkepov
\* routine while moving, and a level-2 one would have left a current.
C8_Witness ==
    /\ phase = "deposited"
    /\ cfg.do_ionization
    /\ cfg.algo = "esirkepov"
    /\ part.ion = 0
    /\ part.d[1] # 0
    /\ DepositOne(cfg, [part EXCEPT !.ion = 2]) # ZeroJ(cfg)

\* ----------------------------------------------------------------- C21
\* The cells in lexicographic order.
CellLeq(a, b) ==
    \/ a[1] < b[1]
    \/ a[1] = b[1] /\ a[2] < b[2]
    \/ a[1] = b[1] /\ a[2] = b[2] /\ a[3] <= b[3]
RECURSIVE SerialSweep(_, _, _, _)
\* The kernel applied cell after cell by one thread, in ascending or in
\* descending order of the cells.
SerialSweep(kernel, P, cells, ascending) ==
    IF cells = {} THEN P
    ELSE LET c == CHOOSE c \in cells : \A d \in cells :
                      IF ascending THEN CellLeq(c, d) ELSE CellLeq(d, c)
         IN  SerialSweep(kernel, RunKernel(kernel, P, c), cells \ {c}, ascending)
\* The arrays of the box (the record of the last call set aside).
Arrays(P) == [E |-> P.E, j |-> P.j, sigj |-> P.sigj, sigsj |-> P.sigsj]
\* A sweep has been launched (it is running or has returned).
InSweep ==
    \/ phase = "sweep_running"
    \/ phase = "sweep_idle" /\ pml.calls > 0

EvalPoint(c, p, a, type) ==
    IF type = "NODE" THEN MidCoord(p, a) ELSE MidCoord(p, a) - (Res(c) \div 2)

\* C22: staggering consistency in direct deposition.  For the particle
\* just deposited, on every axis of the build and for every current
\* component, the weights and the leftmost index used are the shape
\* factor at the particle's mid-step grid coordinate when the component
\* is NODE on the axis and at that coordinate minus 0.5 when it is CELL;
\* two components of the same type on an axis use the same weights and
\* leftmost index; and the array selected was assigned for this particle.
C22_Staggering ==
    (phase = "deposited" /\ cfg.algo = "direct") =>
        \A a \in Axes(cfg) : \A comp \in {"x", "y", "z"} :
           LET type == JType(cfg, comp, a)
           IN  /\ type \in {"NODE", "CELL"}
               /\ SelectShape(cfg, part, comp, a).set
               /\ DirectShape(cfg, part, comp, a) =
                    compute_shape_factor(cfg.order,
                                         EvalPoint(cfg, part, a, type), Res(cfg))
               /\ \A other \in {"x", "y", "z"} :
                    JType(cfg, other, a) = type =>
                       DirectShape(cfg, part, other, a)
                          = DirectShape(cfg, part, comp, a)

\* A particle has been deposited on the staggered grid at order 1 whose
\* NODE and CELL shape factors differ in weights and in leftmost index on
\* the x axis, and both were assigned.
C22_Witness ==
    /\ phase = "deposited"
    /\ cfg.algo = "direct"
    /\ ~cfg.nodal
    /\ cfg.order = 1
    /\ ShapeArrays(cfg, part, 1).node.set
    /\ ShapeArrays(cfg, part, 1).cell.set
    /\ DirectShape(cfg, part, "x", 1).j # DirectShape(cfg, part, "y", 1).j
    /\ DirectShape(cfg, part, "x", 1).s # DirectShape(cfg, part, "y", 1).s
    /\ Jarr # ZeroJ(cfg)

\* ----------------------------------------------------------------- C23
\* The field arrays the solver differences.
FieldArrays(S) == {S.E.x, S.E.y, S.E.z, S.B.x, S.B.y, S.B.z}
\* Coefficient vectors: the solver's own, and infinite and NaN ones.
AnyCoefs(own) == {own, <<[n |-> 1, d |-> 0]>>, <<NaN>>}
\* The neighbour of a cell, one index up (by = 1) or down (by = -1) on the
\* array index ax.
Shifted(c, ax, by) == [c EXCEPT ![ax] = @ + by]

\* C23: reduced 2-D derivatives.  On every field and at every index of the
\* grid: in the 2-D build UpwardDy and DownwardDy are 0 whatever the
\* coefficient, and UpwardDz and DownwardDz are the difference of the
\* field along its second index times the inverse of the z cell size; in
\* the 3-D build the upward derivative of each axis at index n is the
\* downward derivative of that axis at index n+1.
C23_ReducedDerivatives ==
    (phase = "solver") =>
        LET cf == sol.fds.m_stencil_coefs
            inv_dz == RDiv(One, sol.cell_size[3])
            G == GridCells(sol.dim)
        IN  \A F \in FieldArrays(sol) : \A c \in G :
              /\ sol.dim = 2 =>
                   /\ \A coefs \in AnyCoefs(cf.y) :
                        /\ UpwardDy(2, F, coefs, c[1], c[2], c[3]) = Zero
                        /\ DownwardDy(2, F, coefs, c[1], c[2], c[3]) = Zero
                   /\ Shifted(c, 2, 1) \in G =>
                        UpwardDz(2, F, cf.z, c[1], c[2], c[3]) =
                           RMul(inv_dz, RSub(F[Shifted(c, 2, 1)], F[c]))
                   /\ Shifted(c, 2, -1) \in G =>
                        DownwardDz(2, F, cf.z, c[1], c[2], c[3]) =
                           RMul(inv_dz, RSub(F[c], F[Shifted(c, 2, -1)]))
              /\ sol.dim = 3 =>
                   /\ Shifted(c, 1, 1) \in G =>
                        UpwardDx(F, cf.x, c[1], c[2], c[3]) =
                           DownwardDx(F, cf.x, c[1] + 1, c[2], c[3])
                   /\ Shifted(c, 2, 1) \in G =>
                        UpwardDy(3, F, cf.y, c[1], c[2], c[3]) =
                           DownwardDy(3, F, cf.y, c[1], c[2] + 1, c[3])
                   /\ Shifted(c, 3, 1) \in G =>
                        UpwardDz(3, F, cf.z, c[1], c[2], c[3]) =
                           DownwardDz(3, F, cf.z, c[1], c[2], c[3] + 1)

\* The 2-D solver has updated Ex, which in the 2-D build changes only by
\* the downward z derivative of By (the y derivative being 0): that
\* derivative was not zero at the updated cell, and the x and z cell sizes
\* differ.
C23_Witness ==
    /\ phase = "solver"
    /\ sol.dim = 2
    /\ sol.cell_size[1] # sol.cell_size[3]
    /\ \E c \in Interior(2) :
         /\ sol.E.x[c] # sol.init.E.x[c]
         /\ DownwardDz(2, sol.B.y, sol.fds.m_stencil_coefs.z,
                       c[1], c[2], c[3]) # Zero
         /\ DownwardDy(2, sol.B.z, sol.fds.m_stencil_coefs.y,
                       c[1], c[2], c[3]) = Zero

\* ----------------------------------------------------------------- C24
\* A call that leaves the lookup tables as they were, given how it ended.
LeavesTables(call, table_gen) ==
    \/ call.op \in {"are_lookup_tables_initialized", "export_lookup_tables_data",
                    "build_functor"}
    \/ call.op = "init_lookup_tables_from_raw_data" /\ ~Parses(call.arg)
    \/ call.op = "compute_lookup_tables" /\ ~table_gen
\* No call has initialized the tables before call n of the history.
NotInitializedBefore(n) ==
    \A m \in 1..(n - 1) : LeavesTables(engine.hist[m], engine.table_gen)

NonzeroEntries(win) == {i \in DOMAIN win : win[i] # 0}
\* The cells of the arrays behind the entries 0..order+2 of the windows.
WindowCells(c, p) ==
    LET X == EsirkepovAxis(c, p, 1)
        Y == EsirkepovAxis(c, p, 2)
        Z == EsirkepovAxis(c, p, 3)
        W == 0..(c.order + 2)
    IN  IF c.dim = 3 THEN {WinIdx3D(X, Y, Z, i, j, k) : i \in W, j \in W, k \in W}
        ELSE {WinIdx2D(X, Z, i, k) : i \in W, k \in W}

\* C25: Esirkepov index window.  For the particle just deposited, whose
\* old leftmost index differs from the new one by -1, 0 or +1 on each
\* axis: the nonzero new weights lie in entries 1..order+1 and the nonzero
\* old weights in entries 0..order, 1..order+1 or 2..order+2; entry i of
\* both windows is the weight of the grid index i_new-1+i, and no grid
\* index outside the window has a nonzero weight of either position; the
\* loops read entries within 0..order+2 only and the arrays changed only
\* at cells behind such entries.
C25_IndexWindow ==
    (phase = "deposited" /\ cfg.algo = "esirkepov") =>
        /\ \A a \in Axes(cfg) :
             LET ax == EsirkepovAxis(cfg, part, a)
                 x_new == part.x[a]
                 x_old == part.x[a] - part.d[a]
                 diff == ax.i_old - ax.i_new
             IN  diff \in {-1, 0, 1} =>
                   /\ DOMAIN ax.s_new = 0..(cfg.order + 2)
                   /\ DOMAIN ax.s_old = 0..(cfg.order + 2)
                   /\ NonzeroEntries(ax.s_new) \subseteq 1..(cfg.order + 1)
                   /\ NonzeroEntries(ax.s_old)
                         \subseteq (1 + diff)..(cfg.order + 1 + diff)
                   /\ \A i \in 0..(cfg.order + 2) :
                        /\ ax.s_new[i] = ShapeAt(cfg.order, x_new, Res(cfg),
                                                 ax.i_new - 1 + i)
                        /\ ax.s_old[i] = ShapeAt(cfg.order, x_old, Res(cfg),
                                                 ax.i_new - 1 + i)
                   /\ \A g \in 0..NG :
                        (\/ ShapeAt(cfg.order, x_new, Res(cfg), g) # 0
                         \/ ShapeAt(cfg.order, x_old, Res(cfg), g) # 0)
                           => g - (ax.i_new - 1) \in 0..(cfg.order + 2)
                   /\ LoopLo(ax) >= 0
                   /\ LoopHi(cfg, ax) <= cfg.order + 2
                   /\ LoopHiAcc(cfg, ax) <= cfg.order + 2
        /\ LET cells == WindowCells(cfg, part)
           IN  \A comp \in {"x", "y", "z"} : \A n \in DOMAIN Jarr[comp] :
                  Jarr[comp][n] # 0 => n \in cells

\* An order-2 particle has been deposited whose old leftmost index is one
\* higher than the new one along x and one lower along z: the old weights
\* reach entry order+2 of the x window and entry 0 of the z window.
C25_Witness ==
    /\ phase = "deposited"
    /\ cfg.algo = "esirkepov"
    /\ cfg.order = 2
    /\ EsirkepovAxis(cfg, part, 1).i_old = EsirkepovAxis(cfg, part, 1).i_new + 1
    /\ EsirkepovAxis(cfg, part, 3).i_old = EsirkepovAxis(cfg, part, 3).i_new - 1
    /\ EsirkepovAxis(cfg, part, 1).s_old[4] # 0
    /\ EsirkepovAxis(cfg, part, 3).s_old[0] # 0
    /\ Jarr # ZeroJ(cfg)

\* ----------------------------------------------------------------- C26
\* What the recurrence gives at window entry (i, j, k) when every loop
\* runs over the full window 0..order+2: the running sum from entry 0 along
\* the component's own axis (in the 2-D build the second entry j runs
\* along z, k is unused and Jy is not accumulated).  X, Y, Z are the axes
\* of the particle.
FullWindowAmount(c, p, X, Y, Z, comp, i, j, k) ==
    LET W == 0..(c.order + 2)
    IN  IF c.dim = 3
        THEN CASE comp = "x" ->
                    RunningSum([ii \in W |-> TermX3D(c, p, X, Y, Z, ii, j, k)], 0, i)
               [] comp = "y" ->
                    RunningSum([jj \in W |-> TermY3D(c, p, X, Y, Z, i, jj, k)], 0, j)
               [] comp = "z" ->
                    RunningSum([kk \in W |-> TermZ3D(c, p, X, Y, Z, i, j, kk)], 0, k)
        ELSE CASE comp = "x" ->
                    RunningSum([ii \in W |-> TermX2D(c, p, X, Z, ii, j)], 0, i)
               [] comp = "y" -> OutOfPlane2D(c, p, X, Z, i, j)
               [] comp = "z" ->
                    RunningSum([kk \in W |-> TermZ2D(c, p, X, Z, i, kk)], 0, j)
\* Entry e of the window of axis ax is left out by the trimmed loops of a
\* component (own: the axis is the one the component accumulates along).
Skipped(c, ax, own, e) ==
    \/ e < LoopLo(ax)
    \/ e > (IF own THEN LoopHiAcc(c, ax) ELSE LoopHi(c, ax))

\* C26: Esirkepov range trimming changes nothing.  After one particle has
\* been deposited into zeroed arrays, every cell behind a window entry
\* holds what the recurrence run over the full window 0..order+2 on every
\* axis adds there, every other cell holds zero, and the entries the
\* trimmed loops leave out get exactly zero from the full run.
C26_TrimmingChangesNothing ==
    (phase = "deposited" /\ cfg.algo = "esirkepov") =>
        LET X == EsirkepovAxis(cfg, part, 1)
            Y == EsirkepovAxis(cfg, part, 2)
            Z == EsirkepovAxis(cfg, part, 3)
            A2 == IF cfg.dim = 3 THEN Y ELSE Z
            W == 0..(cfg.order + 2)
            K == IF cfg.dim = 3 THEN W ELSE {0}
            Cell(i, j, k) == IF cfg.dim = 3 THEN WinIdx3D(X, Y, Z, i, j, k)
                             ELSE WinIdx2D(X, Z, i, j)
            cells == {Cell(i, j, k) : i \in W, j \in W, k \in K}
            own2 == IF cfg.dim = 3 THEN "y" ELSE "z"
        IN  \A comp \in {"x", "y", "z"} :
              /\ \A i \in W, j \in W, k \in K :
                   LET full == FullWindowAmount(cfg, part, X, Y, Z, comp, i, j, k)
                   IN  /\ Jarr[comp][Cell(i, j, k)] = full
                       /\ (\/ Skipped(cfg, X, comp = "x", i)
                           \/ Skipped(cfg, A2, comp = own2, j)
                           \/ (cfg.dim = 3 /\ Skipped(cfg, Z, comp = "z", k)))
                            => full = 0
              /\ \A n \in DOMAIN Jarr[comp] :
                   n \notin cells => Jarr[comp][n] = 0

\* A 3-D particle has been deposited whose old leftmost index equals the
\* new one along x (both ends trimmed), is lower along y (upper end
\* trimmed) and higher along z (lower end trimmed), and it left current in
\* all three components.
C26_Witness ==
    /\ phase = "deposited"
    /\ cfg.algo = "esirkepov"
    /\ cfg.dim = 3
    /\ cfg.order = 1
    /\ EsirkepovAxis(cfg, part, 1).i_old = EsirkepovAxis(cfg, part, 1).i_new
    /\ EsirkepovAxis(cfg, part, 2).i_old < EsirkepovAxis(cfg, part, 2).i_new
    /\ EsirkepovAxis(cfg, part, 3).i_old > EsirkepovAxis(cfg, part, 3).i_new
    /\ \A comp \in {"x", "y", "z"} : Jarr[comp] # ZeroArr(cfg)


\* ----------------------------------------------------------------- C27
\* The particle deposited directly: the same charge, weight and
\* out-of-plane velocity, the in-plane displacement d1, d3 (an even number
\* of sub-cell steps, so that the mid-step coordinate is on the grid of
\* the model).
DirectTwin(p, d1, d3) == [p EXCEPT !.d = <<d1, p.d[2], d3>>]
\* The even displacements next to d: d itself when it is even.
EvenNear(d) == {2 * (d \div 2), 2 * ((d + 1) \div 2)}
\* The sum of the amounts doDepositionShapeN adds to Jy for the particle.
DirectJyTotal(c, p) ==
    LET adds == DirectAdds([c EXCEPT !.algo = "direct"], p)
        amount == [n \in DOMAIN adds |->
                     IF adds[n].comp = "y" THEN adds[n].val ELSE 0]
    IN  SumFn(amount, 1, Len(adds))

\* C27: out-of-plane current in 2-D Esirkepov deposition.  For one particle
\* of the 2-D XZ build whose old and new leftmost indices differ by at most
\* one on each axis, the amounts added to Jy sum to wq*vy/(dx*dz), the
\* total direct deposition adds to Jy.  (The Esirkepov amounts are held
\* over 6 times the squared shape denominator, the direct ones over the
\* squared shape denominator.)
C27_OutOfPlaneTotal ==
    (phase = "deposited" /\ cfg.algo = "esirkepov" /\ cfg.dim = 2) =>
        LET X == EsirkepovAxis(cfg, part, 1)
            Z == EsirkepovAxis(cfg, part, 3)
            D == ShapeDen(cfg.order, Res(cfg))
            total == SumFn(Jarr.y, 0, NCells(cfg) - 1)
        IN  /\ X.i_old - X.i_new \in {-1, 0, 1}
            /\ Z.i_old - Z.i_new \in {-1, 0, 1}
            /\ total = 6 * D * D * ChargeWeight(cfg, part) * Velocity(cfg, part, 2)
            /\ \A d1 \in EvenNear(part.d[1]), d3 \in EvenNear(part.d[3]) :
                 total = 6 * DirectJyTotal(cfg, DirectTwin(part, d1, d3))

\* A 2-D particle has been deposited that left its cell on both axes, in
\* different directions, and whose displacement direct deposition takes as
\* it is; Jy is nonzero in more cells than one shape footprint has.
C27_Witness ==
    /\ phase = "deposited"
    /\ cfg.algo = "esirkepov"
    /\ cfg.dim = 2
    /\ cfg.order = 2
    /\ part.d[1] % 2 = 0 /\ part.d[3] % 2 = 0
    /\ LET X == EsirkepovAxis(cfg, part, 1)
           Z == EsirkepovAxis(cfg, part, 3)
       IN  /\ X.i_old < X.i_new
           /\ Z.i_old > Z.i_new
    /\ Cardinality({n \in DOMAIN Jarr.y : Jarr.y[n] # 0}) > 9
    /\ SumFn(Jarr.y, 0, NCells(cfg) - 1) # 0


\* ----------------------------------------------------------------- C28
\* The axes of the two damping coefficients of a push, in the order of the
\* two split components: Ex has (xy, xz), Ey (yx, yz), Ez (zx, zy).
PushAxes(kernel) ==
    CASE kernel = "push_ex" -> <<2, 3>>
      [] kernel = "push_ey" -> <<1, 3>>
      [] kernel = "push_ez" -> <<1, 2>>
\* sigjx[j-xlo], sigjy[k-ylo], sigjz[l-zlo] of a cell of the 3-D box.
SigjAt(P, a, cell) == P.sigj[CompOf(a - 1)][cell[a] - P.lo[a]]
NonNegative(a) == IsFinite(a) /\ a.n >= 0
InUnit(a) == IsFinite(a) /\ a.n >= 0 /\ a.n <= a.d

\* C28: PML apportioning weights are fractions.  In the 3-D build, when
\* the two damping coefficients of a push are not negative, both weights
\* lie in [0, 1]; the 0.5/0.5 branch is taken if and only if both
\* coefficients are zero; and when exactly one coefficient is zero the
\* weights are 1 and 0: the split component of the zero axis is left as it
\* was and that of the nonzero axis is lowered by the whole of
\* mu_c2_dt*j.
C28_WeightsAreFractions ==
    [][(Pushed /\ pml.dim = 3) =>
         LET kernel == pml'.last.kernel
             cell == pml'.last.cell
             c == KernelComp(kernel)
             s1 == SigjAt(pml, PushAxes(kernel)[1], cell)
             s2 == SigjAt(pml, PushAxes(kernel)[2], cell)
             al == pml'.last.alpha
             whole == RMul(pml.mu_c2_dt, pml.j[c][cell])
             before == pml.E[c][cell]
             after == pml'.E[c][cell]
         IN  (NonNegative(s1) /\ NonNegative(s2)) =>
               /\ InUnit(al[1]) /\ InUnit(al[2])
               /\ (PmlDivisors(s1, s2) = <<>>) <=> (REqZero(s1) /\ REqZero(s2))
               /\ (REqZero(s1) /\ REqZero(s2)) => al = <<Half, Half>>
               /\ (REqZero(s1) /\ ~REqZero(s2)) =>
                    /\ al = <<Zero, One>>
                    /\ after = <<before[1], RSub(before[2], whole)>>
               /\ (~REqZero(s1) /\ REqZero(s2)) =>
                    /\ al = <<One, Zero>>
                    /\ after = <<RSub(before[1], whole), before[2]>>]_vars

\* A 3-D push of Ez has run at a cell where sigjx is zero and sigjy is
\* not: the zx component is as it was and the zy component has changed.
C28_Witness ==
    /\ phase = "pml"
    /\ pml.dim = 3
    /\ pml.calls = 1
    /\ pml.last.kernel = "push_ez"
    /\ REqZero(SigjAt(pml, 1, pml.last.cell))
    /\ RGtZero(SigjAt(pml, 2, pml.last.cell))
    /\ pml.last.alpha = <<Zero, One>>
    /\ pml.E.z[pml.last.cell][1] = One
    /\ pml.E.z[pml.last.cell][2] # One


\* ----------------------------------------------------------------- C29
\* The coefficients a damping call on component comp multiplies the cell
\* by: three in the 3-D build, the x and z ones in the 2-D build.
AppliedCoefs(P, comp, cell) ==
    IF P.dim = 3
    THEN {DampCoef(P, comp, a, cell[a] - P.lo[a]) : a \in 1..3}
    ELSE {DampCoef(P, comp, 1, cell[1] - P.lo[1]),
          DampCoef(P, comp, 3, cell[2] - P.lo[3])}
\* Every entry of the six coefficient arrays lies in [0, 1].
AllInUnit(P) ==
    \A ax \in {"x", "y", "z"} : \A n \in 0..(PMLCells - 1) :
        InUnit(P.sigj[ax][n]) /\ InUnit(P.sigsj[ax][n])

\* C29: repeated PML damping never amplifies.  When every damping
\* coefficient lies in [0, 1], after any sequence of kernel calls every
\* stored current is finite, at most its initial magnitude, and of its
\* initial sign or zero; a damping call whose coefficients are all 1
\* leaves the currents as they were, and one with a coefficient 0 sets its
\* cell to zero.  No call modifies the coefficient arrays (whatever they
\* hold), so the coefficients a call applies at a cell are the same at
\* every call.
C29_NeverAmplifies ==
    [][phase = "pml" =>
         /\ pml'.sigj = pml.sigj /\ pml'.sigsj = pml.sigsj
         /\ \A comp \in {"x", "y", "z"} : \A cell \in PMLCellSet(pml.dim) :
              AppliedCoefs(pml', comp, cell) = AppliedCoefs(pml, comp, cell)
         /\ AllInUnit(pml) =>
              /\ \A comp \in {"x", "y", "z"} : \A cell \in PMLCellSet(pml.dim) :
                   LET now == pml'.j[comp][cell]
                       first == CoefCurrent(comp, cell)
                   IN  /\ IsFinite(now)
                       /\ ExactLeq(ExactAbs(now), ExactAbs(first))
                       /\ Sign(now.n) \in {Sign(first.n), 0}
                       /\ ExactLeq(ExactAbs(now), ExactAbs(pml.j[comp][cell]))
              /\ Damped =>
                   LET comp == KernelComp(pml'.last.kernel)
                       cell == pml'.last.cell
                       coefs == AppliedCoefs(pml, comp, cell)
                   IN  /\ coefs = {One} => pml'.j = pml.j
                       /\ Zero \in coefs => pml'.j[comp][cell] = Zero]_vars

\* Two damping calls have run on a 3-D box whose coefficients all lie in
\* [0, 1]: one at a cell with a zero coefficient, whose jx is now zero, and
\* one at a cell with a coefficient strictly between 0 and 1, whose jy is
\* still negative and smaller in magnitude than at the start.
C29_Witness ==
    /\ phase = "pml"
    /\ pml.dim = 3
    /\ pml.calls = 2
    /\ AllInUnit(pml)
    /\ pml.last.kernel = "damp_jy"
    /\ LET cell == pml.last.cell
           now == pml.j.y[cell]
       IN  /\ Zero \notin AppliedCoefs(pml, "y", cell)
           /\ now.n < 0
           /\ now # CoefCurrent("y", cell)
           /\ ExactLeq(ExactAbs(now), ExactAbs(CoefCurrent("y", cell)))
    /\ \E cell \in PMLCellSet(3) :
         /\ pml.j.x[cell] = Zero
         /\ CoefCurrent("x", cell) # Zero


\* ----------------------------------------------------------------- C30
BothRan == phase = "coord" /\ par.direct # <<>> /\ par.esirkepov # <<>>

\* C30: the two deposition strategies use consistent positions in the
\* Cartesian builds.  For the same particle, on every axis of the build,
\* the coordinate xmid at which doDepositionShapeN evaluates its shape
\* factors is the arithmetic mean of x_new and x_old of
\* doEsirkepovDepositionShapeN; the two routines compute the same gaminv;
\* the velocity of the direct routine is the momentum times it, and the
\* step from x_old to x_new is dt*dxi times that velocity (in the 2-D build
\* the two vy agree as well).
C30_ConsistentPositions ==
    BothRan =>
        LET d == par.direct[1]
            e == par.esirkepov[1]
        IN  /\ d.gaminv = e.gaminv
            /\ \A a \in 1..3 : d.v[a] = XMul(part.u[a], e.gaminv)
            /\ cfg.dim = 2 => e.vy = <<d.v[2]>>
            /\ DOMAIN d.mid = Axes(cfg) /\ DOMAIN e.new = Axes(cfg)
            /\ \A a \in Axes(cfg) :
                 /\ d.mid[a] = XDiv(XAdd(e.new[a], e.old[a]), XInt(2))
                 /\ XSub(e.new[a], e.old[a])
                      = XMul(XMul(cfg.dt, XDiv(One, cfg.dx[a])), d.v[a])

\* Both routines have run on a 3-D particle that moves on all three axes
\* with gaminv 1/2: on every axis the mid coordinate differs from the new
\* and from the old one.
C30_Witness ==
    /\ BothRan
    /\ cfg.dim = 3
    /\ par.direct[1].gaminv = Half
    /\ \A a \in 1..3 :
         /\ par.direct[1].mid[a] # par.esirkepov[1].new[a]
         /\ par.direct[1].mid[a] # par.esirkepov[1].old[a]
         /\ par.esirkepov[1].new[a] # par.esirkepov[1].old[a]

====
